---- MODULE Spec2Model ----
(***************************************************************************)
(* EBCOT Tier-1 code-block decoder of jpc (src/jpc/src/code_block.rs) and  *)
(* the JP2 container parser of jp2 (exercised by                           *)
(* src/jp2/tests/parse_tests.rs), and the HT capabilities of jpc           *)
(* (src/jpc/src/ht.rs).                                                    *)
(*                                                                         *)
(* A CodeBlockDecoder is driven through its public operations: new (the    *)
(* initial state), num_zero_bit_plane, decode and coefficients.  decode is *)
(* unfolded into the steps between two decode_bit calls of the bit source, *)
(* so that every action asks the coder for at most one bit.  Each decoder  *)
(* instance i has its own fields cb[i], its own coder[i] and its own       *)
(* position pc[i] inside decode.                                           *)
(*                                                                         *)
(* Rust integer arithmetic is kept at its width: bit_plane_shift is a u8,  *)
(* a coefficient value an i16, a decoded bit a u8.  An arithmetic overflow *)
(* panics in a build with overflow checks and wraps in a build without:    *)
(* the build is chosen once, in Init, by overflow_checks.                  *)
(***************************************************************************)
EXTENDS Integers, Sequences, FiniteSets, TLC

VARIABLES
    cb,               \* cb[i]: the fields of CodeBlockDecoder i
    coder,            \* coder[i]: the bit source (dyn Decoder) handed to decode of i
    pc,               \* pc[i]: where decoder i stands inside its operations
    ret,              \* ret[i]: what the last call of coefficients() on i returned
    overflow_checks,  \* TRUE: the build panics on overflow; FALSE: it wraps
    jp2,              \* the JP2 container parse: source, reader, open boxes, JP2File
    ht                \* an HtCapabilities and the last method called on it

vars == <<cb, coder, pc, ret, overflow_checks, jp2, ht>>

----------------------------------------------------------------------------
(* Bounds of the exploration *)

MaxPasses == 2
MaxMb == 2
MaxZeroBitPlanes == 2
MaxDeepPasses == 7
MaxDeepMb == 17

(* Program constants *)

U8_MAX == 255
RUN_LEN == 17
UNIFORM == 18

SubBandType == {"LL", "HL", "LH", "HH"}

----------------------------------------------------------------------------
(* Fixed-width arithmetic *)

RECURSIVE Pow2(_)
Pow2(n) == IF n <= 0 THEN 1 ELSE 2 * Pow2(n - 1)

\* The i16 whose two's complement bits are the low 16 bits of n.
ToI16(n) == LET m == n % 65536 IN IF m >= 32768 THEN m - 65536 ELSE m

RECURSIVE OrBits(_, _, _)
OrBits(a, b, n) ==
    IF n = 0 THEN 0
    ELSE (IF a % 2 = 1 \/ b % 2 = 1 THEN 1 ELSE 0)
         + 2 * OrBits(a \div 2, b \div 2, n - 1)

\* a | b on i16
or_i16(a, b) == ToI16(OrBits(a % 65536, b % 65536, 16))

Val(v) == [ok |-> TRUE, v |-> v]
Panicked == [ok |-> FALSE, v |-> 0]

\* a - b on u8
sub_u8(a, b) ==
    IF a >= b THEN Val(a - b)
    ELSE IF overflow_checks THEN Panicked ELSE Val((a - b) % 256)

\* a + b on u8
add_u8(a, b) ==
    IF a + b <= U8_MAX THEN Val(a + b)
    ELSE IF overflow_checks THEN Panicked ELSE Val((a + b) % 256)

\* x << s on i16, s a u8
shl_i16(x, s) ==
    IF s >= 16 /\ overflow_checks THEN Panicked
    ELSE Val(ToI16(x * Pow2(s % 16)))

\* x >> s on i16 (arithmetic shift), s a u8
shr_i16(x, s) ==
    IF s >= 16 /\ overflow_checks THEN Panicked
    ELSE Val(x \div Pow2(s % 16))

\* x << s on u8, s a u8
shl_u8(x, s) ==
    IF s >= 8 /\ overflow_checks THEN Panicked
    ELSE Val((x * Pow2(s % 8)) % 256)

\* -1 * x on i16
neg_i16(x) ==
    IF x = -32768
    THEN IF overflow_checks THEN Panicked ELSE Val(-32768)
    ELSE Val(-x)

----------------------------------------------------------------------------
(* Coeff *)

Insignificant(shift) ==
    [tag |-> "Insignificant", shift |-> shift, value |-> 0, is_negative |-> FALSE]

Significant(value, is_negative) ==
    [tag |-> "Significant", shift |-> 0, value |-> value, is_negative |-> is_negative]

sign_contribution(c) ==
    IF c.tag = "Insignificant" THEN 0
    ELSE IF c.is_negative THEN -1 ELSE 1

----------------------------------------------------------------------------
(* CodeBlockDecoder: the functions that read a decoder d (a record with   *)
(* the fields width, height, subband, no_passes, bit_plane_shift and      *)
(* coefficients, the latter a row-major sequence of Coeff)                 *)

Min(a, b) == IF a <= b THEN a ELSE b

out_bounds(d, y, x) == x < 0 \/ x >= d.width \/ y < 0 \/ y >= d.height

coeff_at(d, y, x) ==
    IF out_bounds(d, y, x) THEN Insignificant(U8_MAX)
    ELSE d.coefficients[d.width * y + x + 1]

\* *self.coeff_at_mut(idx) = c; the assertion fails out of bounds
coeff_at_mut(d, y, x, c) ==
    IF out_bounds(d, y, x) THEN Panicked
    ELSE Val([d EXCEPT !.coefficients[d.width * y + x + 1] = c])

\* is_significant that reads the lattice cell nearest to (y, x)
is_significant_clamped(d, y, x) ==
    coeff_at(d, Min(IF y < 0 THEN 0 ELSE y, d.height - 1),
                Min(IF x < 0 THEN 0 ELSE x, d.width - 1)).tag = "Significant"

is_significant(d, y, x) ==
    IF out_bounds(d, y, x) THEN FALSE
    ELSE coeff_at(d, y, x).tag = "Significant"

Bit(b) == IF b THEN 1 ELSE 0

\* Table D.1 with the LL arms used for HL as they stand, h and v not swapped
significance_table_unswapped(subband, h, v, dg) ==
    IF subband \in {"LL", "LH", "HL"} THEN
        IF h = 0 /\ v = 0 /\ dg = 0 THEN 0
        ELSE IF h = 0 /\ v = 0 /\ dg = 1 THEN 1
        ELSE IF h = 0 /\ v = 0 THEN 2
        ELSE IF h = 0 /\ v = 1 THEN 3
        ELSE IF h = 0 /\ v = 2 THEN 4
        ELSE IF h = 1 /\ v = 0 /\ dg = 0 THEN 5
        ELSE IF h = 1 /\ v = 0 THEN 6
        ELSE IF h = 1 THEN 7
        ELSE IF h = 2 THEN 8
        ELSE -1
    ELSE
        LET a == h + v IN
        IF a = 0 /\ dg = 0 THEN 0
        ELSE IF a = 1 /\ dg = 0 THEN 1
        ELSE IF dg = 0 /\ a >= 2 THEN 2
        ELSE IF a = 0 /\ dg = 1 THEN 3
        ELSE IF a = 1 /\ dg = 1 THEN 4
        ELSE IF dg = 1 /\ a >= 2 THEN 5
        ELSE IF a = 0 /\ dg = 2 THEN 6
        ELSE IF dg = 2 /\ a >= 1 THEN 7
        ELSE IF dg >= 3 THEN 8
        ELSE -1

\* ITU-T T.800 Table D.1 as the match arms give it, first match first;
\* -1 stands for the panic of the last arm.
significance_table(subband, h, v, dg) ==
    IF subband \in {"LL", "LH"} THEN
        IF h = 0 /\ v = 0 /\ dg = 0 THEN 0
        ELSE IF h = 0 /\ v = 0 /\ dg = 1 THEN 1
        ELSE IF h = 0 /\ v = 0 THEN 2
        ELSE IF h = 0 /\ v = 1 THEN 3
        ELSE IF h = 0 /\ v = 2 THEN 4
        ELSE IF h = 1 /\ v = 0 /\ dg = 0 THEN 5
        ELSE IF h = 1 /\ v = 0 THEN 6
        ELSE IF h = 1 THEN 7
        ELSE IF h = 2 THEN 8
        ELSE -1
    ELSE IF subband = "HL" THEN
        IF h = 0 /\ v = 0 /\ dg = 0 THEN 0
        ELSE IF h = 0 /\ v = 0 /\ dg = 1 THEN 1
        ELSE IF h = 0 /\ v = 0 THEN 2
        ELSE IF h = 1 /\ v = 0 THEN 3
        ELSE IF h = 2 /\ v = 0 THEN 4
        ELSE IF h = 0 /\ v = 1 /\ dg = 0 THEN 5
        ELSE IF h = 0 /\ v = 1 THEN 6
        ELSE IF v = 1 THEN 7
        ELSE IF v = 2 THEN 8
        ELSE -1
    ELSE
        LET a == h + v IN
        IF a = 0 /\ dg = 0 THEN 0
        ELSE IF a = 1 /\ dg = 0 THEN 1
        ELSE IF dg = 0 /\ a >= 2 THEN 2
        ELSE IF a = 0 /\ dg = 1 THEN 3
        ELSE IF a = 1 /\ dg = 1 THEN 4
        ELSE IF dg = 1 /\ a >= 2 THEN 5
        ELSE IF a = 0 /\ dg = 2 THEN 6
        ELSE IF dg = 2 /\ a >= 1 THEN 7
        ELSE IF dg >= 3 THEN 8
        ELSE -1

\* significance_context that leaves the diagonal neighbours out
significance_context_orthogonal(d, y, x) ==
    LET h == Bit(is_significant(d, y, x - 1)) + Bit(is_significant(d, y, x + 1))
        v == Bit(is_significant(d, y - 1, x)) + Bit(is_significant(d, y + 1, x))
    IN  significance_table(d.subband, h, v, 0)

significance_context(d, y, x) ==
    LET h == Bit(is_significant(d, y, x - 1)) + Bit(is_significant(d, y, x + 1))
        v == Bit(is_significant(d, y - 1, x)) + Bit(is_significant(d, y + 1, x))
        dg == Bit(is_significant(d, y - 1, x - 1)) + Bit(is_significant(d, y - 1, x + 1))
              + Bit(is_significant(d, y + 1, x - 1)) + Bit(is_significant(d, y + 1, x + 1))
    IN  significance_table(d.subband, h, v, dg)

\* Checks if the bit in this bit-plane was set
is_bit_plane_set(d, y, x) ==
    LET c == coeff_at(d, y, x) IN
    IF c.tag = "Insignificant" THEN Panicked
    ELSE LET r == shr_i16(c.value, d.bit_plane_shift) IN
         IF r.ok THEN Val(r.v % 2 = 1) ELSE Panicked

\* Turn a coefficient significant
make_significant(d, y, x) ==
    IF coeff_at(d, y, x).tag = "Insignificant"
    THEN LET r == shl_i16(1, d.bit_plane_shift) IN
         IF r.ok THEN coeff_at_mut(d, y, x, Significant(r.v, FALSE)) ELSE Panicked
    ELSE Panicked

\* The two contributions added up and not brought back to -1,0,1
contribution_unclamped(a, b) == sign_contribution(a) + sign_contribution(b)

\* Add up the contribution to a -1,0,1
contribution(a, b) ==
    LET total == sign_contribution(a) + sign_contribution(b) IN
    IF total \in {1, 2} THEN 1 ELSE IF total = 0 THEN 0 ELSE -1

\* Table D.3 without the xor flag
sign_table_no_xor(hc, vc) ==
    CASE hc = 1 -> <<12 + vc, 0>>
      [] hc = 0 /\ vc = 0 -> <<9, 0>>
      [] hc = 0 -> <<10, 0>>
      [] OTHER -> <<12 - vc, 0>>

\* ITU-T T.800 Table D.3: <<context, xor>>
sign_table(hc, vc) ==
    CASE hc = 1 /\ vc = 1 -> <<13, 0>>
      [] hc = 1 /\ vc = 0 -> <<12, 0>>
      [] hc = 1 /\ vc = -1 -> <<11, 0>>
      [] hc = 0 /\ vc = 1 -> <<10, 0>>
      [] hc = 0 /\ vc = 0 -> <<9, 0>>
      [] hc = 0 /\ vc = -1 -> <<10, 1>>
      [] hc = -1 /\ vc = 1 -> <<11, 1>>
      [] hc = -1 /\ vc = 0 -> <<12, 1>>
      [] hc = -1 /\ vc = -1 -> <<13, 1>>
      [] OTHER -> <<-1, 0>>

sign_context(d, y, x) ==
    LET vc == contribution(coeff_at(d, y - 1, x), coeff_at(d, y + 1, x))
        hc == contribution(coeff_at(d, y, x - 1), coeff_at(d, y, x + 1))
    IN  sign_table(hc, vc)

\* The first-refinement context without the neighbour test
magnitude_neighbours_ignored(d, y, x) == 15

magnitude_neighbours(d, y, x) ==
    LET c == Bit(is_significant(d, y - 1, x)) + Bit(is_significant(d, y + 1, x))
             + Bit(is_significant(d, y, x - 1)) + Bit(is_significant(d, y, x + 1))
        dc == Bit(is_significant(d, y - 1, x - 1)) + Bit(is_significant(d, y - 1, x + 1))
              + Bit(is_significant(d, y + 1, x - 1)) + Bit(is_significant(d, y + 1, x + 1))
    IN  IF c > 0 THEN 15 ELSE IF dc + c > 0 THEN 15 ELSE 14

magnitude_context(d, y, x) ==
    LET c == coeff_at(d, y, x) IN
    IF c.tag = "Significant"
    THEN LET s == add_u8(1, d.bit_plane_shift)
             sv == IF s.ok THEN shr_i16(c.value, s.v) ELSE Panicked
         IN  IF ~sv.ok THEN Panicked
             ELSE IF sv.v # 1 THEN Val(16)
             ELSE Val(magnitude_neighbours(d, y, x))
    ELSE Val(magnitude_neighbours(d, y, x))

\* One element of coefficients(): the i32 of a Coeff
coefficient_of(c) ==
    IF c.tag = "Significant"
    THEN IF c.is_negative THEN neg_i16(c.value) ELSE Val(c.value)
    ELSE Val(0)

\* coefficients(): the vector, or the panic of the first element that overflows
coefficients(d) ==
    LET n == Len(d.coefficients) IN
    IF \E k \in 1..n : ~coefficient_of(d.coefficients[k]).ok THEN Panicked
    ELSE Val([k \in 1..n |-> coefficient_of(d.coefficients[k]).v])

----------------------------------------------------------------------------
(* The bit source: trait Decoder.  A "mock" coder is the tests' MockCoder, *)
(* which answers its recorded (context, bit) pairs in order and asserts    *)
(* the context asked for; a "free" coder is any other bit source, which    *)
(* may answer either bit.  cx remembers the last context asked for.        *)

MockCoder(exp) == [kind |-> "mock", exp |-> exp, index |-> 0, cx |-> -1]
FreeCoder == [kind |-> "free", exp |-> <<>>, index |-> 0, cx |-> -1]
\* A bit source that may answer either bit and counts its decode_bit calls
\* and remembers the last bit it answered
CountingCoder == [kind |-> "counting", exp |-> <<>>, index |-> 0, cx |-> -1, bit |-> 0]

\* The possible outcomes of coder.decode_bit(cx): the bit and the coder after
\* the call, or a panic (ok = FALSE).
decode_bit(c, cx) ==
    IF c.kind = "mock"
    THEN IF c.index >= Len(c.exp)
         THEN {[ok |-> FALSE, bit |-> 0, coder |-> [c EXCEPT !.cx = cx]]}
         ELSE LET e == c.exp[c.index + 1]
                  c2 == [c EXCEPT !.index = @ + 1, !.cx = cx]
              IN  {[ok |-> e[1] = cx, bit |-> e[2], coder |-> c2]}
    ELSE IF c.kind = "counting"
    THEN {[ok |-> TRUE, bit |-> b,
           coder |-> [c EXCEPT !.cx = cx, !.index = @ + 1, !.bit = b]] : b \in {0, 1}}
    ELSE {[ok |-> TRUE, bit |-> b, coder |-> [c EXCEPT !.cx = cx]] : b \in {0, 1}}

----------------------------------------------------------------------------
(* Positions inside decode.  A state s of one decoder is the record        *)
(* [cb, coder, pc]; each step below gives the set of states that follow s. *)
(*   pc.at    "idle"  constructed, no decode running                       *)
(*            "col"   pass_cleanup at the head of column strip (by, x)     *)
(*            "uniform_a", "uniform_b"  the two UNIFORM decodes of a run   *)
(*            "cell"  the pass visits cell (y, x)                          *)
(*            "sign"  decode_sign_bit of cell (y, x) is next               *)
(*            "pass_end"  the pass has walked the whole lattice            *)
(*            "ok"    decode returned Ok(())                               *)
(*            "panic" the thread panicked                                  *)
(*   pc.pass  the pass that runs, pc.k the value of the for loop of decode *)
(*            (0 before the loop), pc.passes the passes begun so far,      *)
(*            pc.mb and pc.zbp the arguments of new and num_zero_bit_plane *)
(*            (zbp their sum), pc.op the operation called last,            *)
(*            pc.d8 the value of d8 in the column strip pass_cleanup is in *)
(*            (FALSE outside a run-length coded strip),                    *)
(*            pc.refined the cells <<y, x>> that magnitude_decode has      *)
(*            refined since new                                            *)
(*            pc.born the bit_plane_shift at which make_significant made  *)
(*            each cell significant (-1 for a cell it has not)             *)


St(d, c, p) == [cb |-> d, coder |-> c, pc |-> p]

Panic(s, c) == St(s.cb, c, [s.pc EXCEPT !.at = "panic"])

\* The head of the pass's walk: for by in (0..height).step_by(4), for x in 0..width
PassStart(p, pass) ==
    [p EXCEPT !.pass = pass, !.passes = @ + 1, !.by = 0, !.x = 0, !.y = 0, !.a = 0,
              !.d8 = FALSE,
              !.at = IF pass = "cleanup" THEN "col" ELSE "cell"]

\* The next column strip after (by, x), or the end of the pass
NextColumn(p, d) ==
    IF p.x + 1 < d.width
    THEN [p EXCEPT !.x = @ + 1, !.y = p.by, !.a = 0, !.d8 = FALSE,
                   !.at = IF p.pass = "cleanup" THEN "col" ELSE "cell"]
    ELSE IF p.by + 4 < d.height
    THEN [p EXCEPT !.by = @ + 4, !.x = 0, !.y = p.by + 4, !.a = 0, !.d8 = FALSE,
                   !.at = IF p.pass = "cleanup" THEN "col" ELSE "cell"]
    ELSE [p EXCEPT !.at = "pass_end", !.a = 0, !.d8 = FALSE]

\* The next row of the column after (y, x), whatever the strip
NextCell_whole_column(p, d) ==
    IF p.y + 1 < d.height
    THEN [p EXCEPT !.y = @ + 1, !.at = "cell", !.a = 0]
    ELSE NextColumn(p, d)

\* The next row of the column strip after (y, x), or the next column strip
NextCell(p, d) ==
    IF p.y + 1 < Min(p.by + 4, d.height)
    THEN [p EXCEPT !.y = @ + 1, !.at = "cell", !.a = 0]
    ELSE NextColumn(p, d)

\* num_zero_bit_plane that raises the shift
num_zero_bit_plane_added(s, arg) ==
    LET r == add_u8(s.cb.bit_plane_shift, arg)
        p == [s.pc EXCEPT !.zbp = @ + arg, !.op = "num_zero_bit_plane"]
    IN  IF r.ok THEN St([s.cb EXCEPT !.bit_plane_shift = r.v], s.coder, p)
        ELSE St(s.cb, s.coder, [p EXCEPT !.at = "panic"])

\* num_zero_bit_plane(arg)
num_zero_bit_plane(s, arg) ==
    LET r == sub_u8(s.cb.bit_plane_shift, arg)
        p == [s.pc EXCEPT !.zbp = @ + arg, !.op = "num_zero_bit_plane"]
    IN  IF r.ok THEN St([s.cb EXCEPT !.bit_plane_shift = r.v], s.coder, p)
        ELSE St(s.cb, s.coder, [p EXCEPT !.at = "panic"])

\* decode: the first call, self.pass_cleanup(coder)
decode_begin(s) ==
    St(s.cb, s.coder, PassStart([s.pc EXCEPT !.k = 0, !.op = "decode"], "cleanup"))

\* The for loop of decode without the decrement of bit_plane_shift
decode_loop_same_plane(s) ==
    LET k == IF s.pc.k = 0 THEN 1 ELSE s.pc.k + 3 IN
    IF k < s.cb.no_passes
    THEN St(s.cb, s.coder, PassStart([s.pc EXCEPT !.k = k], "significance"))
    ELSE St(s.cb, s.coder, [s.pc EXCEPT !.at = "ok"])

\* decode: the head of the for loop after a cleanup pass, for _ in (1..no_passes).step_by(3)
decode_loop(s) ==
    LET k == IF s.pc.k = 0 THEN 1 ELSE s.pc.k + 3 IN
    IF k < s.cb.no_passes
    THEN LET r == sub_u8(s.cb.bit_plane_shift, 1) IN
         IF r.ok
         THEN St([s.cb EXCEPT !.bit_plane_shift = r.v], s.coder,
                 PassStart([s.pc EXCEPT !.k = k], "significance"))
         ELSE St(s.cb, s.coder, [s.pc EXCEPT !.k = k, !.at = "panic"])
    ELSE St(s.cb, s.coder, [s.pc EXCEPT !.at = "ok"])

\* decode: the pass that follows a significance or a refinement pass
decode_next_pass(s) ==
    St(s.cb, s.coder,
       PassStart(s.pc, IF s.pc.pass = "significance" THEN "refinement" ELSE "cleanup"))

\* make_significant of cell (y, x) with the sign decode left out
ToSign_deferred(s, d, c, y) ==
    St(d, c, NextCell([s.pc EXCEPT !.y = y, !.a = 0,
                                   !.born[d.width * y + s.pc.x + 1] = d.bit_plane_shift], d))

\* The sign decode that follows make_significant of cell (y, x)
ToSign(s, d, c, y) ==
    St(d, c, [s.pc EXCEPT !.at = "sign", !.y = y, !.a = 0,
                          !.born[d.width * y + s.pc.x + 1] = d.bit_plane_shift])

\* pass_cleanup whose decision D8 counts four rows whatever the height
pass_cleanup_column_short_strip(s) ==
    LET d == s.cb
        p == s.pc
        count_insig == Cardinality({y \in p.by .. p.by + 3 : ~is_significant(d, y, p.x)})
        d8 == 4 = count_insig
    IN  IF d8
        THEN { IF ~r.ok THEN Panic(s, r.coder)
               ELSE IF r.bit # 1 THEN St(d, r.coder, NextColumn(p, d))
               ELSE St(d, r.coder, [p EXCEPT !.at = "uniform_a", !.d8 = TRUE])
               : r \in decode_bit(s.coder, RUN_LEN) }
        ELSE { St(d, s.coder, [p EXCEPT !.at = "cell", !.y = p.by, !.d8 = FALSE]) }

\* pass_cleanup whose decision D8 lets one cell of the strip be significant
pass_cleanup_column_three(s) ==
    LET d == s.cb
        p == s.pc
        count_insig == Cardinality({y \in p.by .. Min(p.by + 4, d.height) - 1 :
                                        ~is_significant(d, y, p.x)})
        d8 == 3 <= count_insig
    IN  IF d8
        THEN { IF ~r.ok THEN Panic(s, r.coder)
               ELSE IF r.bit # 1 THEN St(d, r.coder, NextColumn(p, d))
               ELSE St(d, r.coder, [p EXCEPT !.at = "uniform_a", !.d8 = TRUE])
               : r \in decode_bit(s.coder, RUN_LEN) }
        ELSE { St(d, s.coder, [p EXCEPT !.at = "cell", !.y = p.by, !.d8 = FALSE]) }

\* pass_cleanup that decodes the strip cell by cell after a RUN_LEN bit of 0
pass_cleanup_column_no_skip(s) ==
    LET d == s.cb
        p == s.pc
        count_insig == Cardinality({y \in p.by .. Min(p.by + 4, d.height) - 1 :
                                        ~is_significant(d, y, p.x)})
        d8 == 4 = count_insig
    IN  IF d8
        THEN { IF ~r.ok THEN Panic(s, r.coder)
               ELSE IF r.bit # 1 THEN St(d, r.coder, [p EXCEPT !.at = "cell", !.y = p.by])
               ELSE St(d, r.coder, [p EXCEPT !.at = "uniform_a", !.d8 = TRUE])
               : r \in decode_bit(s.coder, RUN_LEN) }
        ELSE { St(d, s.coder, [p EXCEPT !.at = "cell", !.y = p.by, !.d8 = FALSE]) }

\* pass_cleanup at the head of a column strip: decision D8 and the RUN_LEN decode
pass_cleanup_column(s) ==
    LET d == s.cb
        p == s.pc
        count_insig == Cardinality({y \in p.by .. Min(p.by + 4, d.height) - 1 :
                                        ~is_significant(d, y, p.x)})
        d8 == 4 = count_insig
    IN  IF d8
        THEN { IF ~r.ok THEN Panic(s, r.coder)
               ELSE IF r.bit # 1 THEN St(d, r.coder, NextColumn(p, d))
               ELSE St(d, r.coder, [p EXCEPT !.at = "uniform_a", !.d8 = TRUE])
               : r \in decode_bit(s.coder, RUN_LEN) }
        ELSE { St(d, s.coder, [p EXCEPT !.at = "cell", !.y = p.by, !.d8 = FALSE]) }

\* let a = coder.decode_bit(UNIFORM)
pass_cleanup_uniform_a(s) ==
    { IF ~r.ok THEN Panic(s, r.coder)
      ELSE St(s.cb, r.coder, [s.pc EXCEPT !.at = "uniform_b", !.a = r.bit])
      : r \in decode_bit(s.coder, UNIFORM) }

\* let b = coder.decode_bit(UNIFORM); c5 = 2 * a + b; make_significant(by + c5)
pass_cleanup_uniform_b(s) ==
    { IF ~r.ok THEN Panic(s, r.coder)
      ELSE LET c5 == 2 * s.pc.a + r.bit
               m == make_significant(s.cb, s.pc.by + c5, s.pc.x)
           IN  IF c5 < 4 /\ m.ok THEN ToSign(s, m.v, r.coder, s.pc.by + c5)
               ELSE Panic(s, r.coder)
      : r \in decode_bit(s.coder, UNIFORM) }

\* significance_decode_ctx: decode with a known context, make significant on 1
significance_decode_ctx(s, cx, onzero) ==
    { IF ~r.ok THEN Panic(s, r.coder)
      ELSE IF r.bit = 1
      THEN LET m == make_significant(s.cb, s.pc.y, s.pc.x) IN
           IF m.ok THEN ToSign(s, m.v, r.coder, s.pc.y) ELSE Panic(s, r.coder)
      ELSE St(onzero, r.coder, NextCell(s.pc, s.cb))
      : r \in decode_bit(s.coder, cx) }

\* pass_cleanup, the remaining coefficients of the column strip:
\* !is_significant(idx) && significance_decode(idx, coder)
pass_cleanup_cell(s) ==
    LET d == s.cb
        p == s.pc
        c == coeff_at(d, p.y, p.x)
    IN  IF is_significant(d, p.y, p.x) THEN { St(d, s.coder, NextCell(p, d)) }
        ELSE IF c.shift = d.bit_plane_shift THEN { St(d, s.coder, NextCell(p, d)) }
        ELSE LET cx == significance_context(d, p.y, p.x) IN
             IF cx < 0 THEN { Panic(s, s.coder) }
             ELSE significance_decode_ctx(s, cx, d)

\* pass_significance at cell (y, x) without decision D2
pass_significance_cell_all(s) ==
    LET d == s.cb
        p == s.pc
    IN  IF is_significant(d, p.y, p.x) THEN { St(d, s.coder, NextCell(p, d)) }
        ELSE LET sig_ctx == significance_context(d, p.y, p.x) IN
             IF sig_ctx < 0 THEN { Panic(s, s.coder) }
             ELSE significance_decode_ctx(s, sig_ctx,
                      coeff_at_mut(d, p.y, p.x, Insignificant(d.bit_plane_shift)).v)

\* pass_significance at cell (y, x)
pass_significance_cell(s) ==
    LET d == s.cb
        p == s.pc
    IN  IF is_significant(d, p.y, p.x) THEN { St(d, s.coder, NextCell(p, d)) }
        ELSE LET sig_ctx == significance_context(d, p.y, p.x) IN
             IF sig_ctx < 0 THEN { Panic(s, s.coder) }
             ELSE IF sig_ctx = 0 THEN { St(d, s.coder, NextCell(p, d)) }
             ELSE significance_decode_ctx(s, sig_ctx,
                      coeff_at_mut(d, p.y, p.x, Insignificant(d.bit_plane_shift)).v)

\* magnitude_decode that stores the refined magnitude with a positive sign
magnitude_decode_unsigned(s) ==
    LET d == s.cb
        p == s.pc
        cx == magnitude_context(d, p.y, p.x)
    IN  IF ~cx.ok THEN { Panic(s, s.coder) }
        ELSE { IF ~r.ok THEN Panic(s, r.coder)
               ELSE LET c == coeff_at(d, p.y, p.x)
                        sh == shl_u8(r.bit, d.bit_plane_shift)
                    IN  IF c.tag = "Significant" /\ sh.ok
                        THEN St(coeff_at_mut(d, p.y, p.x,
                                    Significant(or_i16(c.value, sh.v), FALSE)).v,
                                r.coder,
                                NextCell([p EXCEPT !.refined = @ \cup {<<p.y, p.x>>}], d))
                        ELSE Panic(s, r.coder)
               : r \in decode_bit(s.coder, cx.v) }

\* magnitude_decode: one bit, OR-ed into the value at bit_plane_shift
magnitude_decode(s) ==
    LET d == s.cb
        p == s.pc
        cx == magnitude_context(d, p.y, p.x)
    IN  IF ~cx.ok THEN { Panic(s, s.coder) }
        ELSE { IF ~r.ok THEN Panic(s, r.coder)
               ELSE LET c == coeff_at(d, p.y, p.x)
                        sh == shl_u8(r.bit, d.bit_plane_shift)
                    IN  IF c.tag = "Significant" /\ sh.ok
                        THEN St(coeff_at_mut(d, p.y, p.x,
                                    Significant(or_i16(c.value, sh.v), c.is_negative)).v,
                                r.coder,
                                NextCell([p EXCEPT !.refined = @ \cup {<<p.y, p.x>>}], d))
                        ELSE Panic(s, r.coder)
               : r \in decode_bit(s.coder, cx.v) }

\* pass_refinement at cell (y, x)
pass_refinement_cell(s) ==
    LET d == s.cb
        p == s.pc
    IN  IF ~is_significant(d, p.y, p.x) THEN { St(d, s.coder, NextCell(p, d)) }
        ELSE LET is_bit_set == is_bit_plane_set(d, p.y, p.x) IN
             IF ~is_bit_set.ok THEN { Panic(s, s.coder) }
             ELSE IF is_bit_set.v THEN { St(d, s.coder, NextCell(p, d)) }
             ELSE magnitude_decode(s)

\* bit ^ xor on u8
xor_u8(a, b) == IF a = b THEN 0 ELSE 1

\* decode_sign_bit of cell (y, x)
decode_sign_bit(s) ==
    LET d == s.cb
        p == s.pc
        cxx == sign_context(d, p.y, p.x)
    IN  IF cxx[1] < 0 THEN { Panic(s, s.coder) }
        ELSE { IF ~r.ok THEN Panic(s, r.coder)
               ELSE LET c == coeff_at(d, p.y, p.x) IN
                    IF c.tag = "Significant"
                    THEN St(coeff_at_mut(d, p.y, p.x,
                                Significant(c.value, xor_u8(r.bit, cxx[2]) # 0)).v,
                            r.coder, NextCell(p, d))
                    ELSE Panic(s, r.coder)
               : r \in decode_bit(s.coder, cxx[1]) }

----------------------------------------------------------------------------
(* Construction *)

\* new that starts at bit-plane mb instead of mb - 1
new_from_mb(width, height, subband, no_passes, mb, c) ==
    LET d == [width |-> width, height |-> height, subband |-> subband,
              no_passes |-> no_passes,
              bit_plane_shift |-> mb,
              coefficients |-> [k \in 1 .. width * height |-> Insignificant(U8_MAX)]]
        p == [at |-> "idle", pass |-> "none",
              by |-> 0, x |-> 0, y |-> 0, a |-> 0, k |-> 0, passes |-> 0,
              mb |-> mb, zbp |-> 0, op |-> "new", refined |-> {}, d8 |-> FALSE,
              born |-> [k \in 1 .. width * height |-> -1]]
    IN  St(d, c, p)

\* CodeBlockDecoder::new(width, height, subband, no_passes, mb), handed coder c
new(width, height, subband, no_passes, mb, c) ==
    LET r == sub_u8(mb, 1)
        d == [width |-> width, height |-> height, subband |-> subband,
              no_passes |-> no_passes,
              bit_plane_shift |-> r.v,
              coefficients |-> [k \in 1 .. width * height |-> Insignificant(U8_MAX)]]
        p == [at |-> IF r.ok THEN "idle" ELSE "panic", pass |-> "none",
              by |-> 0, x |-> 0, y |-> 0, a |-> 0, k |-> 0, passes |-> 0,
              mb |-> mb, zbp |-> 0, op |-> "new", refined |-> {}, d8 |-> FALSE,
              born |-> [k \in 1 .. width * height |-> -1]]
    IN  St(d, c, p)

\* The two decodes of Annex J.10 as the tests set them up
J10a ==
    [width |-> 1, height |-> 5, subband |-> "LL", no_passes |-> 16, mb |-> 9, zbp |-> 3,
     exp |-> << <<17, 1>>, <<18, 1>>, <<18, 1>>, <<9, 1>>, <<3, 0>>, <<3, 1>>, <<10, 0>>,
                <<3, 1>>, <<10, 0>>, <<15, 0>>, <<0, 1>>, <<9, 1>>, <<4, 1>>, <<10, 0>>,
                <<15, 1>>, <<15, 0>>, <<15, 1>>, <<16, 0>>, <<15, 0>>,
                <<16, 0>>, <<16, 1>>, <<16, 1>>, <<16, 0>>, <<16, 0>>,
                <<16, 1>>, <<16, 1>>, <<16, 1>>, <<16, 0>>, <<16, 1>>,
                <<16, 0>>, <<16, 0>>, <<16, 0>>, <<16, 0>>, <<16, 1>> >>,
     exp_coeffs |-> <<-26, -22, -30, -32, -19>>]

J10b ==
    [width |-> 1, height |-> 4, subband |-> "LH", no_passes |-> 7, mb |-> 10, zbp |-> 7,
     exp |-> << <<17, 1>>, <<18, 0>>, <<18, 1>>, <<9, 0>>, <<3, 0>>, <<0, 0>>, <<3, 0>>,
                <<3, 0>>, <<14, 0>>, <<0, 0>>, <<3, 1>>, <<10, 0>>, <<3, 1>>, <<10, 0>>,
                <<3, 0>>, <<16, 1>> >>,
     exp_coeffs |-> <<1, 5, 1, 0>>]

Tests == {J10a, J10b}

\* A decoder set up as test t sets it up, before num_zero_bit_plane
FromTest(t) == new(t.width, t.height, t.subband, t.no_passes, t.mb, MockCoder(t.exp))

\* The lattices explored with a free bit source, <<width, height>>: up to one
\* full column strip, and two columns.  The lattice of height 5, with a strip
\* of one row, is that of J10a.
GeoShapes == {<<1, 1>>, <<1, 2>>, <<1, 3>>, <<1, 4>>, <<2, 1>>, <<2, 2>>}

\* Every bit sequence on every lattice and subband, with a magnitude budget
\* that the passes do not exhaust
Geometry ==
    { new(q[1][1], q[1][2], q[2], q[3], MaxMb, FreeCoder) :
        q \in GeoShapes \X SubBandType \X (0 .. MaxPasses) }

\* Every bit sequence on the one-cell lattice, with every magnitude budget
\* and pass count
Arithmetic ==
    { new(1, 1, "LL", q[1], q[2], FreeCoder) :
        q \in (0 .. MaxDeepPasses) \X (0 .. MaxDeepMb) }

\* The arguments num_zero_bit_plane is called with: in total at most
\* MaxZeroBitPlanes, or what the test passes
ZbpArgs(s) ==
    { n \in 0 .. MaxZeroBitPlanes : s.pc.zbp + n <= MaxZeroBitPlanes }
    \cup { t.zbp : t \in { u \in Tests : /\ s.coder.kind = "mock"
                                         /\ s.coder.exp = u.exp
                                         /\ s.pc.zbp = 0 } }

Start(i, s) ==
    /\ cb = [j \in {i} |-> s.cb]
    /\ coder = [j \in {i} |-> s.coder]
    /\ pc = [j \in {i} |-> s.pc]
    /\ ret = [j \in {i} |-> <<>>]
    /\ jp2 = <<>>
    /\ ht = <<>>

\* The lattices are explored in the build the tests run in, the arithmetic
\* and the tests in both builds.
Init ==
    \/ /\ overflow_checks = TRUE
       /\ \E s \in Geometry : Start(1, s)
    \/ /\ overflow_checks \in BOOLEAN
       /\ \E s \in Arithmetic \cup { FromTest(t) : t \in Tests } : Start(1, s)

----------------------------------------------------------------------------
(* Actions *)

S(i) == St(cb[i], coder[i], pc[i])

\* Each decoder owns its fields, and each coder its own
StoreCb(i, d) == [cb EXCEPT ![i] = d]
\* Coders that share one index
StoreCoderShared(i, c) ==
    [j \in DOMAIN coder |->
        IF j = i THEN c ELSE [coder[j] EXCEPT !.index = c.index, !.cx = c.cx]]

StoreCoder(i, c) == [coder EXCEPT ![i] = c]

\* Decoder i goes to state n; a value coefficients() returned is the caller's
\* until the next operation
Step(i, n) ==
    /\ cb' = StoreCb(i, n.cb)
    /\ coder' = StoreCoder(i, n.coder)
    /\ pc' = [pc EXCEPT ![i] = n.pc]
    /\ ret' = [ret EXCEPT ![i] = <<>>]
    /\ UNCHANGED <<overflow_checks, jp2, ht>>

NumZeroBitPlane(i) ==
    /\ pc[i].at = "idle"
    /\ \E arg \in ZbpArgs(S(i)) : Step(i, num_zero_bit_plane(S(i), arg))

Decode(i) ==
    /\ pc[i].at = "idle"
    /\ Step(i, decode_begin(S(i)))

PassCleanupColumn(i) ==
    /\ pc[i].at = "col"
    /\ \E n \in pass_cleanup_column(S(i)) : Step(i, n)

PassCleanupUniformA(i) ==
    /\ pc[i].at = "uniform_a"
    /\ \E n \in pass_cleanup_uniform_a(S(i)) : Step(i, n)

PassCleanupUniformB(i) ==
    /\ pc[i].at = "uniform_b"
    /\ \E n \in pass_cleanup_uniform_b(S(i)) : Step(i, n)

PassCleanupCell(i) ==
    /\ pc[i].at = "cell"
    /\ pc[i].pass = "cleanup"
    /\ \E n \in pass_cleanup_cell(S(i)) : Step(i, n)

PassSignificanceCell(i) ==
    /\ pc[i].at = "cell"
    /\ pc[i].pass = "significance"
    /\ \E n \in pass_significance_cell(S(i)) : Step(i, n)

PassRefinementCell(i) ==
    /\ pc[i].at = "cell"
    /\ pc[i].pass = "refinement"
    /\ \E n \in pass_refinement_cell(S(i)) : Step(i, n)

DecodeSignBit(i) ==
    /\ pc[i].at = "sign"
    /\ \E n \in decode_sign_bit(S(i)) : Step(i, n)

DecodeLoop(i) ==
    /\ pc[i].at = "pass_end"
    /\ pc[i].pass = "cleanup"
    /\ Step(i, decode_loop(S(i)))

DecodeNextPass(i) ==
    /\ pc[i].at = "pass_end"
    /\ pc[i].pass # "cleanup"
    /\ Step(i, decode_next_pass(S(i)))

\* coefficients() that moves the values out of the decoder
CoefficientsDrained(i) ==
    /\ pc[i].at \in {"idle", "ok"}
    /\ coefficients(cb[i]).ok
    /\ ret' = [ret EXCEPT ![i] = coefficients(cb[i]).v]
    /\ cb' = [cb EXCEPT ![i].coefficients =
                 [k \in 1 .. Len(@) |-> Insignificant(U8_MAX)]]
    /\ UNCHANGED <<coder, pc, overflow_checks, jp2, ht>>

\* coefficients(): the caller gets the vector; the decoder is only read
Coefficients(i) ==
    /\ pc[i].at \in {"idle", "ok"}
    /\ LET r == coefficients(cb[i]) IN
       IF r.ok
       THEN /\ ret' = [ret EXCEPT ![i] = r.v]
            /\ UNCHANGED <<cb, coder, pc, overflow_checks, jp2, ht>>
       ELSE /\ pc' = [pc EXCEPT ![i].at = "panic", ![i].op = "coefficients"]
            /\ ret' = [ret EXCEPT ![i] = <<>>]
            /\ UNCHANGED <<cb, coder, overflow_checks, jp2, ht>>

Next ==
    \/ \E i \in DOMAIN cb : NumZeroBitPlane(i)
    \/ \E i \in DOMAIN cb : Decode(i)
    \/ \E i \in DOMAIN cb : PassCleanupColumn(i)
    \/ \E i \in DOMAIN cb : PassCleanupUniformA(i)
    \/ \E i \in DOMAIN cb : PassCleanupUniformB(i)
    \/ \E i \in DOMAIN cb : PassCleanupCell(i)
    \/ \E i \in DOMAIN cb : PassSignificanceCell(i)
    \/ \E i \in DOMAIN cb : PassRefinementCell(i)
    \/ \E i \in DOMAIN cb : DecodeSignBit(i)
    \/ \E i \in DOMAIN cb : DecodeLoop(i)
    \/ \E i \in DOMAIN cb : DecodeNextPass(i)
    \/ \E i \in DOMAIN cb : Coefficients(i)

Spec == Init /\ [][Next]_vars

----------------------------------------------------------------------------
(* Two code-blocks decoded side by side, each by its own decoder from its  *)
(* own coder, their steps interleaved in any order                         *)

\* Test t's decoder after the test's call of num_zero_bit_plane
Ready(t) == num_zero_bit_plane(FromTest(t), t.zbp)

InitPar ==
    /\ overflow_checks = TRUE
    /\ \E t1 \in Tests, t2 \in Tests :
        LET s == <<Ready(t1), Ready(t2)>> IN
        /\ cb = [i \in {1, 2} |-> s[i].cb]
        /\ coder = [i \in {1, 2} |-> s[i].coder]
        /\ pc = [i \in {1, 2} |-> s[i].pc]
    /\ ret = [i \in {1, 2} |-> <<>>]
    /\ jp2 = <<>>
    /\ ht = <<>>

NextPar ==
    \/ \E i \in DOMAIN cb : Decode(i)
    \/ \E i \in DOMAIN cb : PassCleanupColumn(i)
    \/ \E i \in DOMAIN cb : PassCleanupUniformA(i)
    \/ \E i \in DOMAIN cb : PassCleanupUniformB(i)
    \/ \E i \in DOMAIN cb : PassCleanupCell(i)
    \/ \E i \in DOMAIN cb : PassSignificanceCell(i)
    \/ \E i \in DOMAIN cb : PassRefinementCell(i)
    \/ \E i \in DOMAIN cb : DecodeSignBit(i)
    \/ \E i \in DOMAIN cb : DecodeLoop(i)
    \/ \E i \in DOMAIN cb : DecodeNextPass(i)
    \/ \E i \in DOMAIN cb : Coefficients(i)

SpecPar == InitPar /\ [][NextPar]_vars

\* The states that can follow s when its decoder runs alone
Successors(s) ==
    LET at == s.pc.at
        pass == s.pc.pass
    IN  CASE at = "idle" ->
                { num_zero_bit_plane(s, arg) : arg \in ZbpArgs(s) } \cup { decode_begin(s) }
          [] at = "col" -> pass_cleanup_column(s)
          [] at = "uniform_a" -> pass_cleanup_uniform_a(s)
          [] at = "uniform_b" -> pass_cleanup_uniform_b(s)
          [] at = "cell" /\ pass = "cleanup" -> pass_cleanup_cell(s)
          [] at = "cell" /\ pass = "significance" -> pass_significance_cell(s)
          [] at = "cell" /\ pass = "refinement" -> pass_refinement_cell(s)
          [] at = "sign" -> decode_sign_bit(s)
          [] at = "pass_end" /\ pass = "cleanup" -> { decode_loop(s) }
          [] at = "pass_end" /\ pass # "cleanup" -> { decode_next_pass(s) }
          [] OTHER -> {}

\* decode run alone to its end from s, a state whose coder leaves no choice
RECURSIVE Run(_)
Run(s) == IF Successors(s) = {} THEN s ELSE Run(CHOOSE n \in Successors(s) : TRUE)

\* The end of test t's decode when its decoder runs alone
Alone(t) == Run(decode_begin(Ready(t)))

----------------------------------------------------------------------------
(* JP2 container parser: decode_jp2 over a byte source.  jp2 is            *)
(*   source  the bytes of the file                                         *)
(*   pos     the position of the reader                                    *)
(*   open    the boxes being parsed, outermost first, each the bounded     *)
(*           sub-reader of its payload                                     *)
(*   file    the JP2File assembled so far                                  *)
(*   at      "box": a box header is read next; "payload": the payload      *)
(*           parser of the innermost open box runs next; "close": its      *)
(*           sub-reader is closed next; "eof": the source is exhausted;    *)
(*           "done": decode_jp2 returned Ok; "error": it returned Err(err) *)
(*   read    the bytes <<from, to>> the last step consumed                 *)
(*   op      the last operation                                            *)

\* The four bytes of a box identifier
ID_SIGNATURE == <<106, 80, 32, 32>>
ID_FILE_TYPE == <<102, 116, 121, 112>>
ID_HEADER == <<106, 112, 50, 104>>
ID_IMAGE_HEADER == <<105, 104, 100, 114>>
ID_BITS_PER_COMPONENT == <<98, 112, 99, 99>>
ID_COLOUR_SPECIFICATION == <<99, 111, 108, 114>>
ID_PALETTE == <<112, 99, 108, 114>>
ID_COMPONENT_MAPPING == <<99, 109, 97, 112>>
ID_CHANNEL_DEFINITION == <<99, 100, 101, 102>>
ID_RESOLUTION == <<114, 101, 115, 32>>
ID_CAPTURE_RESOLUTION == <<114, 101, 115, 99>>
ID_DISPLAY_RESOLUTION == <<114, 101, 115, 100>>
ID_CODESTREAM == <<106, 112, 50, 99>>
ID_INTELLECTUAL_PROPERTY == <<106, 112, 50, 105>>
ID_XML == <<120, 109, 108, 32>>
ID_UUID == <<117, 117, 105, 100>>
ID_UUID_INFO == <<117, 105, 110, 102>>
ID_UUID_LIST == <<117, 108, 115, 116>>
ID_URL == <<117, 114, 108, 32>>
BRAND_JP2 == <<106, 112, 50, 32>>
SIGNATURE_MAGIC == <<13, 10, 135, 10>>

\* Option values
None == <<>>
Some(x) == <<x>>

\* read_u16_be, read_u32_be, read_u64_be: the big-endian value of bytes
RECURSIVE be(_)
be(bs) ==
    IF bs = <<>> THEN 0
    ELSE be(SubSeq(bs, 1, Len(bs) - 1)) * 256 + bs[Len(bs)]

\* A reader bounded by the end of the source only
Limit_of_source(source, open) == Len(source)

\* The end of what the reader may read: the end of the source and of every
\* bounded sub-reader that is open
RECURSIVE Limit(_, _)
Limit(source, open) ==
    IF open = <<>> THEN Len(source)
    ELSE Min(open[Len(open)].offset + open[Len(open)].length,
             Limit(source, SubSeq(open, 1, Len(open) - 1)))

\* decode_jp2 returns Err(e)
Fail(j, e, op) == [j EXCEPT !.at = "error", !.err = e, !.op = op]

\* Whether n more bytes can be read
CanRead(j, n) == j.pos + n <= Limit(j.source, j.open)

\* Why a read of n bytes is refused: by the source or by a bounded sub-reader
Short(j, n) == IF j.pos + n > Len(j.source) THEN "UnexpectedEof" ELSE "TruncatedBox"

\* A read of n bytes is refused: nothing is read
Refuse(j, n, op) == [Fail(j, Short(j, n), op) EXCEPT !.read = <<j.pos, j.pos>>]

\* The next n bytes
Peek(j, n) == SubSeq(j.source, j.pos + 1, j.pos + n)

\* The reader after n bytes were read by operation op
Advance(j, n, op) == [j EXCEPT !.pos = @ + n, !.read = <<j.pos, j.pos + n>>, !.op = op]

\* The innermost open box
Top(j) == j.open[Len(j.open)]

\* The bytes left in the innermost open box
Remaining(j) == Top(j).offset + Top(j).length - j.pos

\* Container boxes and the children their schemas allow
Containers == {ID_HEADER, ID_RESOLUTION, ID_UUID_INFO}

Schema(parent) ==
    CASE parent = ID_HEADER ->
            {ID_IMAGE_HEADER, ID_BITS_PER_COMPONENT, ID_COLOUR_SPECIFICATION, ID_PALETTE,
             ID_COMPONENT_MAPPING, ID_CHANNEL_DEFINITION, ID_RESOLUTION}
      [] parent = ID_RESOLUTION -> {ID_CAPTURE_RESOLUTION, ID_DISPLAY_RESOLUTION}
      [] parent = ID_UUID_INFO -> {ID_UUID_LIST, ID_URL}

\* Whether a box of type T met in parent is parsed as a container
IsContainer(parent, T) ==
    \/ parent = None /\ T \in {ID_HEADER, ID_UUID_INFO}
    \/ parent = ID_HEADER /\ T = ID_RESOLUTION

\* Boxes present at most once in their parent (None: the top level)
Singletons(parent) ==
    IF parent = None
    THEN {ID_SIGNATURE, ID_FILE_TYPE, ID_HEADER, ID_INTELLECTUAL_PROPERTY}
    ELSE Schema(parent) \ {ID_COLOUR_SPECIFICATION}

\* The boxes already parsed at the level where the next box is read
Siblings(j) == IF j.open = <<>> THEN j.file.boxes ELSE Top(j).children

Identifiers(boxes) == { boxes[k].identifier : k \in 1 .. Len(boxes) }

\* A box whose offset is the start of its header and whose length counts
\* the header
Box_from_header(T, offset, length, header) ==
    [identifier |-> T, offset |-> offset - header, length |-> length + header,
     header |-> header, fields |-> None, children |-> <<>>]

\* A box: its identifier, where its payload starts, the size of its payload,
\* the size of its header, its parsed fields and its child boxes
Box(T, offset, length, header) ==
    [identifier |-> T, offset |-> offset, length |-> length, header |-> header,
     fields |-> None, children |-> <<>>]

\* read_box that hands every box to its parser, whatever its parent holds
dispatch_any(j, T, header, size) ==
    LET parent == IF j.open = <<>> THEN None ELSE Top(j).identifier
        b == Box(T, j.pos + header, size, header)
        n == Advance(j, header, "read_box")
    IN  IF parent = None /\ Siblings(j) = <<>> /\ T # ID_SIGNATURE
        THEN Fail(n, "BadMagic", "read_box")
        ELSE IF parent = None /\ Len(Siblings(j)) = 1 /\ T # ID_FILE_TYPE
        THEN Fail(n, "BadIdentifier", "read_box")
        ELSE [n EXCEPT !.open = Append(@, b),
                       !.at = IF IsContainer(parent, T)
                              THEN IF size = 0 THEN "close" ELSE "box"
                              ELSE "payload"]

\* read_box step 6 and 7: the box of type T is handed to its parser, or
\* refused where the schema of its parent forbids it
dispatch(j, T, header, size) ==
    LET parent == IF j.open = <<>> THEN None ELSE Top(j).identifier
        seen == Identifiers(Siblings(j))
        b == Box(T, j.pos + header, size, header)
        n == Advance(j, header, "read_box")
    IN  IF parent = None /\ Siblings(j) = <<>> /\ T # ID_SIGNATURE
        THEN Fail(n, "BadMagic", "read_box")
        ELSE IF parent = None /\ Len(Siblings(j)) = 1 /\ T # ID_FILE_TYPE
        THEN Fail(n, "BadIdentifier", "read_box")
        ELSE IF parent # None /\ T \notin Schema(parent)
        THEN Fail(n, "UnexpectedBoxInContainer", "read_box")
        ELSE IF T \in Singletons(parent) /\ T \in seen
        THEN Fail(n, "DuplicateSingleton", "read_box")
        ELSE [n EXCEPT !.open = Append(@, b),
                       !.at = IF IsContainer(parent, T)
                              THEN IF size = 0 THEN "close" ELSE "box"
                              ELSE "payload"]

\* read_box that subtracts the header size without looking at the length
read_box_unchecked(j) ==
    IF ~CanRead(j, 8) THEN Refuse(j, 8, "read_box")
    ELSE
        LET L32 == be(SubSeq(Peek(j, 8), 1, 4))
            T == SubSeq(Peek(j, 8), 5, 8)
        IN  IF L32 = 1
            THEN IF ~CanRead(j, 16) THEN Refuse(Advance(j, 8, "read_box"), 8, "read_box")
                 ELSE dispatch(j, T, 16, (be(SubSeq(Peek(j, 16), 9, 16)) - 16) % Pow2(30))
            ELSE IF L32 = 0
            THEN dispatch(j, T, 8, Limit(j.source, j.open) - (j.pos + 8))
            ELSE dispatch(j, T, 8, (L32 - 8) % Pow2(30))

\* read_box steps 1 to 4: the header and the payload size it declares
read_box(j) ==
    IF ~CanRead(j, 8) THEN Refuse(j, 8, "read_box")
    ELSE
        LET L32 == be(SubSeq(Peek(j, 8), 1, 4))
            T == SubSeq(Peek(j, 8), 5, 8)
        IN  IF L32 = 1
            THEN IF ~CanRead(j, 16) THEN Refuse(Advance(j, 8, "read_box"), 8, "read_box")
                 ELSE LET L64 == be(SubSeq(Peek(j, 16), 9, 16)) IN
                      IF L64 < 16
                      THEN Fail(Advance(j, 16, "read_box"), "LengthUnderflow", "read_box")
                      ELSE dispatch(j, T, 16, L64 - 16)
            ELSE IF L32 = 0
            THEN dispatch(j, T, 8, Limit(j.source, j.open) - (j.pos + 8))
            ELSE IF L32 < 8
            THEN Fail(Advance(j, 8, "read_box"), "LengthUnderflow", "read_box")
            ELSE dispatch(j, T, 8, L32 - 8)

\* The payload parser has filled the fields of the innermost open box
Parsed(j, f) == [j EXCEPT !.open[Len(j.open)].fields = f, !.at = "close"]

\* A fixed layout of n bytes is read from the payload, checked (error "" when
\* it is well formed) and kept as fields
Fixed(j, n, op, fields, error) ==
    IF ~CanRead(j, n) THEN Refuse(j, n, op)
    ELSE IF error # "" THEN Fail(Advance(j, n, op), error, op)
    ELSE Parsed(Advance(j, n, op), fields)

\* A layout that ends with the rest of the payload, of at least n bytes
ToEnd(j, n, op, fields, error) ==
    IF Remaining(j) < n THEN Refuse(j, n, op)
    ELSE Fixed(j, Remaining(j), op, fields, error)

\* The payload as far as it can be read
Payload(j) == Peek(j, Limit(j.source, j.open) - j.pos)

\* The bytes of b from position k (from 0), n of them
Slice(b, k, n) == SubSeq(b, k + 1, k + n)

\* The rest of b from position k
Rest(b, k) == SubSeq(b, k + 1, Len(b))

\* b cut into records of n bytes
Records(b, n) == [k \in 1 .. Len(b) \div n |-> Slice(b, (k - 1) * n, n)]

\* Signature box
parse_signature(j) ==
    LET b == Payload(j) IN
    Fixed(j, 4, "signature", [signature |-> Slice(b, 0, 4)],
          IF Slice(b, 0, 4) = SIGNATURE_MAGIC THEN "" ELSE "BadMagic")

\* File type box
parse_file_type(j) ==
    LET b == Payload(j)
        compatibility_list == Records(Rest(b, 8), 4)
    IN  ToEnd(j, 8, "file_type",
              [brand |-> Slice(b, 0, 4), min_version |-> be(Slice(b, 4, 4)),
               compatibility_list |-> compatibility_list],
              IF (Len(b) - 8) % 4 # 0 THEN "TruncatedBox"
              ELSE IF /\ Slice(b, 0, 4) = BRAND_JP2
                      /\ be(Slice(b, 4, 4)) = 0
                      /\ \E k \in 1 .. Len(compatibility_list) :
                            compatibility_list[k] = BRAND_JP2
                   THEN "" ELSE "InvalidEnum")

\* The bpc byte: the low 7 bits are the depth minus 1, the high bit the sign
BitDepth(bpc) ==
    [value |-> (bpc % 128) + 1, signed |-> (bpc \div 128) % 2 = 1]

\* Image header box
parse_image_header(j) ==
    LET b == Payload(j) IN
    Fixed(j, 14, "image_header",
          [height |-> be(Slice(b, 0, 4)), width |-> be(Slice(b, 4, 4)),
           components_num |-> be(Slice(b, 8, 2)),
           components_bits |-> BitDepth(b[11]).value,
           values_are_signed |-> BitDepth(b[11]).signed,
           compression_type |-> b[12], colourspace_unknown |-> b[13],
           intellectual_property |-> b[14]],
          "")

\* Bits per component box
parse_bits_per_component(j) ==
    LET b == Payload(j) IN
    ToEnd(j, 0, "bits_per_component",
          [bits_per_component |-> [k \in 1 .. Len(b) |-> BitDepth(b[k])]], "")

\* Colour specification box: the method decides what follows the three bytes
ColourSpecificationMethod(m) ==
    CASE m = 1 -> [name |-> "EnumeratedColourSpace", value |-> m]
      [] m = 2 -> [name |-> "RestrictedICCProfile", value |-> m]
      [] OTHER -> [name |-> "Reserved", value |-> m]

EnumeratedColourSpace(v) ==
    CASE v = 16 -> [name |-> "sRGB", value |-> v]
      [] v = 17 -> [name |-> "Greyscale", value |-> v]
      [] v = 18 -> [name |-> "sYCC", value |-> v]
      [] OTHER -> [name |-> "Reserved", value |-> v]

\* Colour specification box parser that reports a reserved colour space where
\* the box holds an ICC profile
parse_colour_specification_both(j) ==
    LET b == Payload(j)
        head == [method |-> ColourSpecificationMethod(b[1]), precedence |-> b[2],
                 colourspace_approximation |-> b[3]]
    IN  IF Remaining(j) < 3 \/ ~CanRead(j, 3) THEN Refuse(j, 3, "colour_specification")
        ELSE IF b[1] = 1
        THEN Fixed(j, 7, "colour_specification",
                   head @@ [enumerated_colour_space |->
                                Some(EnumeratedColourSpace(be(Slice(b, 3, 4)))),
                            restricted_icc_profile |-> None], "")
        ELSE IF b[1] = 2
        THEN ToEnd(j, 3, "colour_specification",
                   head @@ [enumerated_colour_space |-> Some(EnumeratedColourSpace(0)),
                            restricted_icc_profile |-> Some(Rest(b, 3))], "")
        ELSE Fixed(j, 3, "colour_specification",
                   head @@ [enumerated_colour_space |-> None,
                            restricted_icc_profile |-> None], "")

parse_colour_specification(j) ==
    LET b == Payload(j)
        head == [method |-> ColourSpecificationMethod(b[1]), precedence |-> b[2],
                 colourspace_approximation |-> b[3]]
    IN  IF Remaining(j) < 3 \/ ~CanRead(j, 3) THEN Refuse(j, 3, "colour_specification")
        ELSE IF b[1] = 1
        THEN Fixed(j, 7, "colour_specification",
                   head @@ [enumerated_colour_space |->
                                Some(EnumeratedColourSpace(be(Slice(b, 3, 4)))),
                            restricted_icc_profile |-> None], "")
        ELSE IF b[1] = 2
        THEN ToEnd(j, 3, "colour_specification",
                   head @@ [enumerated_colour_space |-> None,
                            restricted_icc_profile |-> Some(Rest(b, 3))], "")
        ELSE Fixed(j, 3, "colour_specification",
                   head @@ [enumerated_colour_space |-> None,
                            restricted_icc_profile |-> None], "")

\* Palette box: the bytes one value of a column takes, and where the value of
\* column c (from 0) starts in an entry row
Width(depth) == (depth.value + 7) \div 8

RECURSIVE ColumnOffset(_, _)
ColumnOffset(depths, c) ==
    IF c = 0 THEN 0 ELSE ColumnOffset(depths, c - 1) + Width(depths[c])

\* A value of w bytes, sign-extended when the column is signed
PaletteValue(bytes, depth) ==
    IF depth.signed /\ bytes[1] >= 128
    THEN be(bytes) - Pow2(8 * Len(bytes))
    ELSE be(bytes)

parse_palette(j) ==
    LET b == Payload(j)
        num_entries == be(Slice(b, 0, 2))
        num_components == b[3]
        bit_depths == [k \in 1 .. num_components |-> BitDepth(b[3 + k])]
        row == ColumnOffset(bit_depths, num_components)
        base == 3 + num_components
        entries ==
            [i \in 1 .. num_entries |->
                [c \in 1 .. num_components |->
                    PaletteValue(Slice(b, base + (i - 1) * row
                                              + ColumnOffset(bit_depths, c - 1),
                                       Width(bit_depths[c])),
                                 bit_depths[c])]]
    IN  IF ~CanRead(j, 3) THEN Refuse(j, 3, "palette")
        ELSE IF ~CanRead(j, base) THEN Refuse(j, base, "palette")
        ELSE Fixed(j, base + num_entries * row, "palette",
                   [num_entries |-> num_entries, num_components |-> num_components,
                    bit_depths |-> bit_depths, entries |-> entries],
                   IF \E k \in 1 .. num_components : bit_depths[k].value > 38
                   THEN "InvalidEnum" ELSE "")

\* PaletteBox::bit_depth(k) and PaletteBox::entry(i, c) of a parsed palette
bit_depth(pclr, k) ==
    IF k < Len(pclr.bit_depths) THEN Some(pclr.bit_depths[k + 1]) ELSE None

\* entry(i, c) that looks the value up in the entries laid end to end
entry_flat(pclr, i, c) ==
    LET n == pclr.num_components
        k == i * n + c
    IN  IF n > 0 /\ k < pclr.num_entries * n
        THEN Some(pclr.entries[(k \div n) + 1][(k % n) + 1])
        ELSE None

entry(pclr, i, c) ==
    IF i < Len(pclr.entries) /\ c < Len(pclr.entries[i + 1])
    THEN Some(pclr.entries[i + 1][c + 1])
    ELSE None

\* Component mapping box
parse_component_mapping(j) ==
    LET b == Payload(j)
        r == Records(b, 4)
    IN  ToEnd(j, 0, "component_mapping",
              [mappings |-> [k \in 1 .. Len(r) |->
                  [component |-> be(Slice(r[k], 0, 2)), mapping_type |-> r[k][3],
                   palette_column |-> r[k][4]]]],
              IF Len(b) % 4 # 0 THEN "TruncatedBox" ELSE "")

\* Channel definition box
parse_channel_definition(j) ==
    LET b == Payload(j)
        count == be(Slice(b, 0, 2))
        r == Records(Slice(b, 2, 6 * count), 6)
    IN  IF ~CanRead(j, 2) THEN Refuse(j, 2, "channel_definition")
        ELSE Fixed(j, 2 + 6 * count, "channel_definition",
                   [channels |-> [k \in 1 .. count |->
                       [channel_index |-> be(Slice(r[k], 0, 2)),
                        channel_type |-> be(Slice(r[k], 2, 2)),
                        channel_association |-> be(Slice(r[k], 4, 2))]]], "")

\* An exponent byte as a signed 8-bit value
I8(byte) == IF byte >= 128 THEN byte - 256 ELSE byte

\* Capture and default display resolution boxes
parse_resolution(j) ==
    LET b == Payload(j) IN
    Fixed(j, 10, "resolution",
          [vertical_numerator |-> be(Slice(b, 0, 2)),
           vertical_denominator |-> be(Slice(b, 2, 2)),
           horizontal_numerator |-> be(Slice(b, 4, 2)),
           horizontal_denominator |-> be(Slice(b, 6, 2)),
           vertical_exponent |-> I8(b[9]), horizontal_exponent |-> I8(b[10])], "")

\* UUID box: the 16-byte UUID, then an opaque body
parse_uuid(j) ==
    LET b == Payload(j) IN
    ToEnd(j, 16, "uuid", [uuid |-> Slice(b, 0, 16), data |-> Rest(b, 16)], "")

\* UUID list box
parse_uuid_list(j) ==
    LET b == Payload(j)
        count == be(Slice(b, 0, 2))
    IN  IF ~CanRead(j, 2) THEN Refuse(j, 2, "uuid_list")
        ELSE Fixed(j, 2 + 16 * count, "uuid_list",
                   [number_of_uuids |-> count,
                    ids |-> Records(Slice(b, 2, 16 * count), 16)], "")

\* Data entry URL box
parse_url(j) ==
    LET b == Payload(j) IN
    ToEnd(j, 4, "url",
          [version |-> b[1], flags |-> Slice(b, 1, 3), location |-> Rest(b, 4)], "")

\* XML and intellectual property boxes, and any box the top level does not
\* know: the payload is kept as it is
parse_opaque(j) ==
    LET b == Payload(j) IN
    ToEnd(j, 0, "opaque", [data |-> b], "")

\* Contiguous codestream box: the payload is skipped
parse_codestream(j) == ToEnd(j, 0, "codestream", [data |-> None], "")

\* The payload parser of the innermost open box
Kind(j) ==
    LET T == Top(j).identifier IN
    IF Len(j.open) = 1
    THEN CASE T = ID_SIGNATURE -> "signature"
           [] T = ID_FILE_TYPE -> "file_type"
           [] T = ID_CODESTREAM -> "codestream"
           [] T = ID_UUID -> "uuid"
           [] OTHER -> "opaque"
    ELSE CASE T = ID_IMAGE_HEADER -> "image_header"
           [] T = ID_BITS_PER_COMPONENT -> "bits_per_component"
           [] T = ID_COLOUR_SPECIFICATION -> "colour_specification"
           [] T = ID_PALETTE -> "palette"
           [] T = ID_COMPONENT_MAPPING -> "component_mapping"
           [] T = ID_CHANNEL_DEFINITION -> "channel_definition"
           [] T \in {ID_CAPTURE_RESOLUTION, ID_DISPLAY_RESOLUTION} -> "resolution"
           [] T = ID_UUID_LIST -> "uuid_list"
           [] T = ID_URL -> "url"

\* JP2File with no box
EmptyFile ==
    [signature_box |-> None, file_type_box |-> None, header_box |-> None,
     intellectual_property_box |-> None, xml_boxes |-> <<>>, uuid_boxes |-> <<>>,
     uuid_info_boxes |-> <<>>, contiguous_codestreams_boxes |-> <<>>, boxes |-> <<>>]

\* A parsed top-level box takes its place in the JP2File; a box of unknown
\* type is kept among the boxes only
add_box(file, b) ==
    LET f == [file EXCEPT !.boxes = Append(@, b)]
        T == b.identifier
    IN  CASE T = ID_SIGNATURE -> [f EXCEPT !.signature_box = Some(b)]
          [] T = ID_FILE_TYPE -> [f EXCEPT !.file_type_box = Some(b)]
          [] T = ID_HEADER -> [f EXCEPT !.header_box = Some(b)]
          [] T = ID_INTELLECTUAL_PROPERTY -> [f EXCEPT !.intellectual_property_box = Some(b)]
          [] T = ID_XML -> [f EXCEPT !.xml_boxes = Append(@, b)]
          [] T = ID_UUID -> [f EXCEPT !.uuid_boxes = Append(@, b)]
          [] T = ID_UUID_INFO -> [f EXCEPT !.uuid_info_boxes = Append(@, b)]
          [] T = ID_CODESTREAM -> [f EXCEPT !.contiguous_codestreams_boxes = Append(@, b)]
          [] OTHER -> f

\* The bounded sub-reader of the innermost open box is closed: the source
\* must stand at the end of the payload; the box joins its parent
close_box(j) ==
    LET b == Top(j)
        rest == SubSeq(j.open, 1, Len(j.open) - 1)
        c == [j EXCEPT !.op = "close", !.read = <<j.pos, j.pos>>]
    IN  IF j.pos # b.offset + b.length THEN Fail(c, "ExtraPayload", "close")
        ELSE IF b.identifier = ID_HEADER
                /\ ID_IMAGE_HEADER \notin Identifiers(b.children)
        THEN Fail(c, "MalformedBox", "close")
        ELSE IF rest = <<>>
        THEN [c EXCEPT !.open = rest, !.file = add_box(@, b),
                       !.at = IF j.pos = Len(j.source) THEN "eof" ELSE "box"]
        ELSE LET parent == rest[Len(rest)] IN
             [c EXCEPT !.open = [rest EXCEPT ![Len(rest)].children = Append(@, b)],
                       !.at = IF j.pos = parent.offset + parent.length
                              THEN "close" ELSE "box"]

\* decode_jp2 that returns whatever file follows a signature box
finish_after_signature(j) ==
    LET c == [j EXCEPT !.op = "finish", !.read = <<j.pos, j.pos>>]
    IN  IF j.file.signature_box = None THEN Fail(c, "BadMagic", "finish")
        ELSE [c EXCEPT !.at = "done"]

\* The end of the source: decode_jp2 returns the file when it has the boxes
\* a JP2 file must have
finish(j) ==
    LET f == j.file
        c == [j EXCEPT !.op = "finish", !.read = <<j.pos, j.pos>>]
    IN  IF f.signature_box = None THEN Fail(c, "BadMagic", "finish")
        ELSE IF \/ f.file_type_box = None
                \/ f.header_box = None
                \/ f.contiguous_codestreams_boxes = <<>>
        THEN Fail(c, "MalformedBox", "finish")
        ELSE [c EXCEPT !.at = "done"]

\* decode_jp2(reader) begins
decode_jp2(source) ==
    [source |-> source, pos |-> 0, open |-> <<>>, file |-> EmptyFile,
     at |-> IF source = <<>> THEN "eof" ELSE "box", err |-> "",
     read |-> <<0, 0>>, op |-> "decode_jp2"]

----------------------------------------------------------------------------
(* JP2 files given to decode_jp2 *)

MaxBoxes == 3
MaxChildren == 2

\* n as w big-endian bytes
to_be(n, w) == [k \in 1 .. w |-> (n \div Pow2(8 * (w - k))) % 256]

\* n bytes of value v
Fill(n, v) == [k \in 1 .. n |-> v]

RECURSIVE Concat(_)
Concat(ss) == IF ss = <<>> THEN <<>> ELSE ss[1] \o Concat(Tail(ss))

\* The sequences of at most n elements of A
SeqsUpTo(A, n) == UNION { [1 .. k -> A] : k \in 0 .. n }

\* A box whose 32-bit length field is L32, whatever its payload
raw_box(L32, T, payload) == to_be(L32, 4) \o T \o payload

\* A box with the length of its payload in its header
box(T, payload) == raw_box(8 + Len(payload), T, payload)

\* The same with an extended length L64
raw_xl_box(L64, T, payload) == to_be(1, 4) \o T \o to_be(0, 4) \o to_be(L64, 4) \o payload

xl_box(T, payload) == raw_xl_box(16 + Len(payload), T, payload)

\* The same running to the end of the source
last_box(T, payload) == raw_box(0, T, payload)

ID_FREE == <<102, 114, 101, 101>>
GEOJP2_UUID == <<177, 75, 248, 189, 8, 61, 75, 67, 165, 174, 140, 215, 213, 166, 206, 3>>
HIRISE_UUID == <<43, 13, 126, 151, 170, 46, 49, 125, 154, 51, 229, 49, 97, 162, 247, 208>>

SignatureBox == box(ID_SIGNATURE, SIGNATURE_MAGIC)
FileTypeBox == box(ID_FILE_TYPE, BRAND_JP2 \o to_be(0, 4) \o BRAND_JP2)

ImageHeaderBox(height, width, components_num, bpc) ==
    box(ID_IMAGE_HEADER,
        to_be(height, 4) \o to_be(width, 4) \o to_be(components_num, 2) \o <<bpc, 7, 0, 0>>)

ColourSpecificationBox(method, approximation, rest) ==
    box(ID_COLOUR_SPECIFICATION, <<method, 0, approximation>> \o rest)

PaletteBox(num_entries, bpcs, values) ==
    box(ID_PALETTE, to_be(num_entries, 2) \o <<Len(bpcs)>> \o bpcs \o values)

HeaderBox(children) == box(ID_HEADER, Concat(children))

CodestreamBox == box(ID_CODESTREAM, <<0>>)

\* geojp2.jp2 as test_geojp2 describes it: a 100x24 greyscale image, the GeoJP2
\* UUID box with 356 bytes of TIFF and an XML box of 127 bytes (the bytes the
\* test does not look at are 0)
GeoJp2 ==
    SignatureBox \o FileTypeBox
    \o HeaderBox(<<ImageHeaderBox(24, 100, 1, 7),
                   ColourSpecificationBox(1, 0, to_be(17, 4))>>)
    \o box(ID_UUID, GEOJP2_UUID \o <<73, 73>> \o Fill(354, 0))
    \o box(ID_XML, Fill(127, 60))
    \o CodestreamBox

\* hirise_modified.jp2 as test_hirise_modified describes it
Hirise ==
    SignatureBox \o FileTypeBox
    \o HeaderBox(<<ImageHeaderBox(16754, 4246, 3, 9),
                   ColourSpecificationBox(1, 0, to_be(16, 4))>>)
    \o box(ID_UUID, GEOJP2_UUID \o <<73, 73>> \o Fill(497, 0))
    \o box(ID_UUID_INFO,
           box(ID_UUID_LIST, to_be(1, 2) \o HIRISE_UUID)
           \o box(ID_URL, <<0, 0, 0, 0>> \o Fill(25, 69)))
    \o CodestreamBox

\* The palette of file9.jp2 as test_sample_file9 describes it: 256 entries of
\* three unsigned 8-bit columns (the entries the test does not look at are 0)
File9Entry(i) ==
    CASE i = 1 -> <<255, 255, 255>>
      [] i = 2 -> <<23, 12, 21>>
      [] i = 214 -> <<165, 132, 92>>
      [] i = 252 -> <<22, 11, 9>>
      [] i = 255 -> <<245, 245, 245>>
      [] OTHER -> <<0, 0, 0>>

File9 ==
    SignatureBox
    \o box(ID_FILE_TYPE, BRAND_JP2 \o to_be(0, 4) \o <<0, 0, 0, 1>> \o BRAND_JP2)
    \o HeaderBox(<<ImageHeaderBox(512, 768, 1, 7),
                   ColourSpecificationBox(1, 1, to_be(16, 4)),
                   PaletteBox(256, <<7, 7, 7>>,
                              [k \in 1 .. 768 |-> File9Entry((k - 1) \div 3)[((k - 1) % 3) + 1]]),
                   box(ID_COMPONENT_MAPPING, <<0, 0, 1, 0, 0, 0, 1, 1, 0, 0, 1, 2>>)>>)
    \o CodestreamBox

\* file8.jp2 as test_sample_file8 describes it: one component, a restricted
\* ICC profile
File8 ==
    SignatureBox
    \o box(ID_FILE_TYPE, BRAND_JP2 \o to_be(0, 4) \o <<0, 0, 0, 1>> \o BRAND_JP2)
    \o HeaderBox(<<ImageHeaderBox(400, 700, 1, 7),
                   ColourSpecificationBox(2, 1, <<0, 0, 1, 164>>)>>)
    \o box(ID_XML, <<60, 62>>) \o CodestreamBox \o box(ID_XML, <<60, 62>>)

Fixtures == {GeoJp2, Hirise, File9, File8}

\* Top-level boxes that may follow the file type box
TopBoxes ==
    { HeaderBox(<<ImageHeaderBox(2, 3, 1, 7), ColourSpecificationBox(1, 0, to_be(16, 4))>>),
      CodestreamBox,
      last_box(ID_CODESTREAM, <<0, 0>>),
      xl_box(ID_CODESTREAM, <<0>>),
      box(ID_XML, <<60, 62>>),
      box(ID_FREE, <<1, 2, 3>>),
      box(ID_INTELLECTUAL_PROPERTY, <<60, 62>>),
      box(ID_UUID, GEOJP2_UUID \o <<73, 73>>) }

\* Boxes that may stand inside the header box
ChildBoxes ==
    { ImageHeaderBox(2, 3, 1, 7),
      box(ID_IMAGE_HEADER, to_be(2, 4) \o to_be(3, 4) \o to_be(1, 2) \o <<7, 7, 0, 0, 0>>),
      box(ID_IMAGE_HEADER, to_be(2, 4) \o to_be(3, 4) \o to_be(1, 2) \o <<7, 7, 0>>),
      raw_box(23, ID_IMAGE_HEADER, to_be(2, 4) \o to_be(3, 4) \o to_be(1, 2) \o <<7, 7, 0, 0>>),
      ColourSpecificationBox(1, 0, to_be(17, 4)),
      ColourSpecificationBox(1, 0, to_be(99, 4)),
      ColourSpecificationBox(2, 0, <<4, 5>>),
      ColourSpecificationBox(3, 0, <<>>),
      ColourSpecificationBox(1, 0, to_be(16, 4) \o <<0>>),
      PaletteBox(2, <<7, 143>>, <<1, 255, 254, 3, 0, 5>>),
      PaletteBox(2, <<7, 143>>, <<1, 255, 254, 3, 0>>),
      box(ID_BITS_PER_COMPONENT, <<7>>),
      box(ID_COMPONENT_MAPPING, <<0, 0, 1, 0>>),
      box(ID_CHANNEL_DEFINITION, to_be(1, 2) \o <<0, 0, 0, 0, 0, 1>>),
      box(ID_RESOLUTION, box(ID_CAPTURE_RESOLUTION, <<0, 20, 0, 1, 0, 25, 0, 1, 0, 255>>)),
      box(ID_RESOLUTION, box(ID_IMAGE_HEADER, <<>>)),
      box(ID_FREE, <<1>>) }

\* Box headers of every form, well formed and not
LengthForms ==
    { raw_box(L32, ID_XML, <<60, 62>>) : L32 \in 2 .. 11 }
    \cup { raw_xl_box(L64, ID_XML, <<60, 62>>) : L64 \in {0, 15, 16, 18, 19} }
    \cup { raw_box(1, ID_XML, <<0, 0, 0>>), <<0, 0, 0>>,
           box(ID_UUID_INFO, box(ID_UUID_LIST, to_be(1, 2) \o HIRISE_UUID)
                             \o box(ID_URL, <<0, 0, 0, 0, 65>>)),
           box(ID_UUID_INFO, raw_box(40, ID_URL, <<0, 0, 0, 0, 65>>)),
           box(ID_UUID_INFO, last_box(ID_URL, <<0, 0, 0, 0, 65>>)),
           box(ID_UUID_INFO, box(ID_UUID_LIST, to_be(1, 2) \o HIRISE_UUID \o <<0>>)),
           box(ID_UUID, <<1, 2, 3>>) }

\* The first two boxes of a file, as they should be and otherwise
Prefixes ==
    { SignatureBox \o FileTypeBox,
      <<>>,
      SignatureBox,
      FileTypeBox,
      FileTypeBox \o SignatureBox,
      box(ID_SIGNATURE, <<13, 10, 135, 11>>) \o FileTypeBox,
      box(ID_SIGNATURE, SIGNATURE_MAGIC \o <<0>>) \o FileTypeBox,
      SignatureBox \o SignatureBox \o FileTypeBox,
      SignatureBox \o box(ID_XML, <<60, 62>>) \o FileTypeBox,
      SignatureBox \o box(ID_FILE_TYPE, BRAND_JP2 \o to_be(0, 4)),
      SignatureBox \o box(ID_FILE_TYPE, BRAND_JP2 \o to_be(1, 4) \o BRAND_JP2),
      SignatureBox \o box(ID_FILE_TYPE, ID_FREE \o to_be(0, 4) \o BRAND_JP2),
      SignatureBox \o box(ID_FILE_TYPE, BRAND_JP2 \o to_be(0, 4) \o ID_FREE),
      SignatureBox \o box(ID_FILE_TYPE, BRAND_JP2 \o to_be(0, 4) \o BRAND_JP2 \o <<0, 0>>),
      SignatureBox \o box(ID_FILE_TYPE, BRAND_JP2 \o to_be(0, 4) \o ID_FREE \o BRAND_JP2) }

\* The files decode_jp2 is given
Files ==
    { SignatureBox \o FileTypeBox \o Concat(bs) : bs \in SeqsUpTo(TopBoxes, MaxBoxes) }
    \cup { SignatureBox \o FileTypeBox \o HeaderBox(cs) \o CodestreamBox :
             cs \in SeqsUpTo(ChildBoxes, MaxChildren) }
    \cup { SignatureBox \o FileTypeBox \o HeaderBox(<<ImageHeaderBox(2, 3, 1, 7)>>)
             \o CodestreamBox \o f : f \in LengthForms }
    \cup { p \o HeaderBox(<<ImageHeaderBox(2, 3, 1, 7)>>) \o CodestreamBox : p \in Prefixes }
    \cup Fixtures

----------------------------------------------------------------------------
(* decode_jp2, one box operation at a time *)

InitJp2 ==
    /\ cb = <<>>
    /\ coder = <<>>
    /\ pc = <<>>
    /\ ret = <<>>
    /\ overflow_checks = TRUE
    /\ ht = <<>>
    /\ \E source \in Files : jp2 = decode_jp2(source)

Jp2Step(n) ==
    /\ jp2' = n
    /\ UNCHANGED <<cb, coder, pc, ret, overflow_checks, ht>>

Payload_(kind) == jp2.at = "payload" /\ Kind(jp2) = kind

ReadBox == jp2.at = "box" /\ Jp2Step(read_box(jp2))
ParseSignature == Payload_("signature") /\ Jp2Step(parse_signature(jp2))
ParseFileType == Payload_("file_type") /\ Jp2Step(parse_file_type(jp2))
ParseImageHeader == Payload_("image_header") /\ Jp2Step(parse_image_header(jp2))
ParseBitsPerComponent == Payload_("bits_per_component") /\ Jp2Step(parse_bits_per_component(jp2))
ParseColourSpecification == Payload_("colour_specification") /\ Jp2Step(parse_colour_specification(jp2))
ParsePalette == Payload_("palette") /\ Jp2Step(parse_palette(jp2))
ParseComponentMapping == Payload_("component_mapping") /\ Jp2Step(parse_component_mapping(jp2))
ParseChannelDefinition == Payload_("channel_definition") /\ Jp2Step(parse_channel_definition(jp2))
ParseResolution == Payload_("resolution") /\ Jp2Step(parse_resolution(jp2))
ParseUuid == Payload_("uuid") /\ Jp2Step(parse_uuid(jp2))
ParseUuidList == Payload_("uuid_list") /\ Jp2Step(parse_uuid_list(jp2))
ParseUrl == Payload_("url") /\ Jp2Step(parse_url(jp2))
ParseOpaque == Payload_("opaque") /\ Jp2Step(parse_opaque(jp2))
ParseCodestream == Payload_("codestream") /\ Jp2Step(parse_codestream(jp2))
CloseBox == jp2.at = "close" /\ Jp2Step(close_box(jp2))
Finish == jp2.at = "eof" /\ Jp2Step(finish(jp2))

NextJp2 ==
    \/ ReadBox
    \/ ParseSignature
    \/ ParseFileType
    \/ ParseImageHeader
    \/ ParseBitsPerComponent
    \/ ParseColourSpecification
    \/ ParsePalette
    \/ ParseComponentMapping
    \/ ParseChannelDefinition
    \/ ParseResolution
    \/ ParseUuid
    \/ ParseUuidList
    \/ ParseUrl
    \/ ParseOpaque
    \/ ParseCodestream
    \/ CloseBox
    \/ Finish

SpecJp2 == InitJp2 /\ [][NextJp2]_vars

----------------------------------------------------------------------------
(* One decode of a lattice with more than one column strip, or with two    *)
(* columns of a full strip, from a bit source that may answer either bit   *)
(* and counts the bits it is asked for                                     *)

\* no_passes and M_b of these decodes: a Cleanup pass, then the significance,
\* refinement and Cleanup pass of the next bit-plane
StripPasses == 2
StripMb == 2

\* <<width, height, no_passes>>: a full strip above a strip of one row, and
\* one row of three cells, decoded over two bit-planes; two columns of a full
\* strip, the first Cleanup pass alone
StripShapes == {<<1, 5, StripPasses>>, <<3, 1, StripPasses>>, <<2, 4, 1>>}

InitStrip ==
    /\ overflow_checks = TRUE
    /\ \E q \in StripShapes :
          Start(1, new(q[1], q[2], "LL", q[3], StripMb, CountingCoder))

NextStrip ==
    \/ \E i \in DOMAIN cb : Decode(i)
    \/ \E i \in DOMAIN cb : PassCleanupColumn(i)
    \/ \E i \in DOMAIN cb : PassCleanupUniformA(i)
    \/ \E i \in DOMAIN cb : PassCleanupUniformB(i)
    \/ \E i \in DOMAIN cb : PassCleanupCell(i)
    \/ \E i \in DOMAIN cb : PassSignificanceCell(i)
    \/ \E i \in DOMAIN cb : PassRefinementCell(i)
    \/ \E i \in DOMAIN cb : DecodeSignBit(i)
    \/ \E i \in DOMAIN cb : DecodeLoop(i)
    \/ \E i \in DOMAIN cb : DecodeNextPass(i)

SpecStrip == InitStrip /\ [][NextStrip]_vars

----------------------------------------------------------------------------
(* HtCapabilities (Ccap15): a u16 and the methods that read its bits.  ht  *)
(* is the capabilities object, the method called on it last and what that  *)
(* call returned (Panicked for unreachable!).                              *)

RECURSIVE AndBits(_, _, _)
AndBits(a, b, n) ==
    IF n = 0 THEN 0
    ELSE (IF a % 2 = 1 /\ b % 2 = 1 THEN 1 ELSE 0)
         + 2 * AndBits(a \div 2, b \div 2, n - 1)

\* a & b on u16
and_u16(a, b) == AndBits(a, b, 16)

\* x >> s on u16
shr_u16(x, s) == x \div Pow2(s)

\* HtCapabilities::new(ccap15)
HtCapabilities(ccap15) == [bits |-> ccap15]

\* HT cleanup magnitude bound with a mask of six bits
magnitude_cleanup_bound_six_bits(self) ==
    LET ht_magnitude_cleanup_bits == and_u16(self.bits, 63) IN
    IF ht_magnitude_cleanup_bits = 0 THEN Val(8)
    ELSE IF ht_magnitude_cleanup_bits < 20 THEN Val(ht_magnitude_cleanup_bits + 8)
    ELSE IF ht_magnitude_cleanup_bits \in 20 .. 30
    THEN Val(4 * (ht_magnitude_cleanup_bits - 19) + 27)
    ELSE IF ht_magnitude_cleanup_bits = 31 THEN Val(74)
    ELSE Panicked

\* HT cleanup magnitude bound
magnitude_cleanup_bound(self) ==
    LET ht_magnitude_cleanup_bits == and_u16(self.bits, 31) IN
    IF ht_magnitude_cleanup_bits = 0 THEN Val(8)
    ELSE IF ht_magnitude_cleanup_bits < 20 THEN Val(ht_magnitude_cleanup_bits + 8)
    ELSE IF ht_magnitude_cleanup_bits \in 20 .. 30
    THEN Val(4 * (ht_magnitude_cleanup_bits - 19) + 27)
    ELSE IF ht_magnitude_cleanup_bits = 31 THEN Val(74)
    ELSE Panicked

\* The heterogeneous test on bit 10
is_heterogenous_codestream_bit_10(self) == and_u16(self.bits, 1024) = 1024

is_heterogenous_codestream(self) == and_u16(self.bits, 2048) = 2048

is_homogeneous_codestream(self) == ~is_heterogenous_codestream(self)

irreversible_transforms(self) == and_u16(self.bits, 32) = 32

reversible_transforms(self) == ~irreversible_transforms(self)

region_of_interest_marker_present(self) == and_u16(self.bits, 4096) = 4096

no_region_of_interest_marker_present(self) == ~region_of_interest_marker_present(self)

multiple_ht_set_per_codeblock(self) == and_u16(self.bits, 8192) = 8192

single_ht_set_per_codeblock(self) == ~multiple_ht_set_per_codeblock(self)

\* Code block mix with the arms of 0b01 and 0b10 exchanged
code_block_style_exchanged(self) ==
    LET bits14_15 == and_u16(shr_u16(self.bits, 14), 3) IN
    CASE bits14_15 = 0 -> Val("AllHt")
      [] bits14_15 = 1 -> Val("OneOrOther")
      [] bits14_15 = 2 -> Val("Reserved")
      [] bits14_15 = 3 -> Val("Mix")
      [] OTHER -> Panicked

\* Code block mix of content
code_block_style(self) ==
    LET bits14_15 == and_u16(shr_u16(self.bits, 14), 3) IN
    CASE bits14_15 = 0 -> Val("AllHt")
      [] bits14_15 = 1 -> Val("Reserved")
      [] bits14_15 = 2 -> Val("OneOrOther")
      [] bits14_15 = 3 -> Val("Mix")
      [] OTHER -> Panicked

\* Every u16 is a Ccap15
InitHt ==
    /\ cb = <<>>
    /\ coder = <<>>
    /\ pc = <<>>
    /\ ret = <<>>
    /\ overflow_checks = TRUE
    /\ jp2 = <<>>
    /\ \E ccap15 \in 0 .. Pow2(16) - 1 :
          ht = [caps |-> HtCapabilities(ccap15), op |-> "new", out |-> <<>>]

\* One method is called on the capabilities just constructed
Call(op, out) ==
    /\ ht.op = "new"
    /\ ht' = [ht EXCEPT !.op = op, !.out = out]
    /\ UNCHANGED <<cb, coder, pc, ret, overflow_checks, jp2>>

MagnitudeCleanupBound == Call("magnitude_cleanup_bound", magnitude_cleanup_bound(ht.caps))
IsHomogeneousCodestream ==
    Call("is_homogeneous_codestream", is_homogeneous_codestream(ht.caps))
IsHeterogenousCodestream ==
    Call("is_heterogenous_codestream", is_heterogenous_codestream(ht.caps))
ReversibleTransforms == Call("reversible_transforms", reversible_transforms(ht.caps))
IrreversibleTransforms == Call("irreversible_transforms", irreversible_transforms(ht.caps))
RegionOfInterestMarkerPresent ==
    Call("region_of_interest_marker_present", region_of_interest_marker_present(ht.caps))
NoRegionOfInterestMarkerPresent ==
    Call("no_region_of_interest_marker_present", no_region_of_interest_marker_present(ht.caps))
SingleHtSetPerCodeblock ==
    Call("single_ht_set_per_codeblock", single_ht_set_per_codeblock(ht.caps))
MultipleHtSetPerCodeblock ==
    Call("multiple_ht_set_per_codeblock", multiple_ht_set_per_codeblock(ht.caps))
CodeBlockStyle == Call("code_block_style", code_block_style(ht.caps))

NextHt ==
    \/ MagnitudeCleanupBound
    \/ IsHomogeneousCodestream
    \/ IsHeterogenousCodestream
    \/ ReversibleTransforms
    \/ IrreversibleTransforms
    \/ RegionOfInterestMarkerPresent
    \/ NoRegionOfInterestMarkerPresent
    \/ SingleHtSetPerCodeblock
    \/ MultipleHtSetPerCodeblock
    \/ CodeBlockStyle

SpecHt == InitHt /\ [][NextHt]_vars

----------------------------------------------------------------------------
(* Properties *)

Ids == DOMAIN cb

\* Decoder i was set up as test t sets its decoder up
IsTest(i, t) ==
    /\ coder[i].kind = "mock"
    /\ coder[i].exp = t.exp
    /\ cb[i].width = t.width
    /\ cb[i].height = t.height
    /\ cb[i].subband = t.subband
    /\ cb[i].no_passes = t.no_passes
    /\ pc[i].mb = t.mb
    /\ pc[i].zbp = t.zbp

\* The last context asked of mock coder i was the recorded one
Followed(i) ==
    coder[i].index > 0 => coder[i].cx = coder[i].exp[coder[i].index][1]

\* What decode of test t must do on decoder i
Replays(i, t) ==
    IsTest(i, t) =>
        /\ pc[i].at # "panic"
        /\ Followed(i)
        /\ pc[i].at = "ok" =>
            /\ coder[i].index = Len(t.exp)
            /\ coefficients(cb[i]) = Val(t.exp_coeffs)
            /\ ret[i] # <<>> => ret[i] = t.exp_coeffs

\* C1: new(1, 5, LL, 16, 9), num_zero_bit_plane(3), driven by the 34 recorded
\* (context, bit) pairs of J.10(a): decode asks exactly those contexts in that
\* order, uses them all, returns Ok, and coefficients() is [-26, -22, -30, -32, -19].
C1_J10a == \A i \in Ids : Replays(i, J10a)

C1_Witness ==
    \E i \in Ids : IsTest(i, J10a) /\ pc[i].at = "ok" /\ ret[i] = <<-26, -22, -30, -32, -19>>

\* C2: new(1, 4, LH, 7, 10), num_zero_bit_plane(7), driven by the 16 recorded
\* pairs of J.10(b): decode asks exactly those contexts in that order (context 14
\* for the first refinement of the isolated cell), uses them all, returns Ok,
\* and coefficients() is [1, 5, 1, 0].
C2_J10b ==
    \A i \in Ids :
        /\ Replays(i, J10b)
        /\ IsTest(i, J10b) /\ coder[i].index = 9 => coder[i].cx = 14

C2_Witness ==
    \E i \in Ids : IsTest(i, J10b) /\ pc[i].at = "ok" /\ ret[i] = <<1, 5, 1, 0>>

\* C3 (as claimed): a decode that returned Ok ran exactly no_passes passes.
C3_PassesAreNoPasses ==
    \A i \in Ids : pc[i].at = "ok" => pc[i].passes = cb[i].no_passes

\* The pass that follows pass p when n passes have begun
PassAfter(p, n) ==
    IF n = 0 THEN "cleanup"
    ELSE IF p = "cleanup" THEN "significance"
    ELSE IF p = "significance" THEN "refinement"
    ELSE "cleanup"

\* C4: the passes run in the order Cleanup, then (Significance, Refinement,
\* Cleanup) repeated, each beginning when the one before has walked the whole
\* lattice; during decode bit_plane_shift changes only where a Significance
\* pass begins, and there it is decremented by 1 (as a u8).
C4_PassOrder ==
    [][\A i \in Ids :
        LET p == pc[i]
            q == pc'[i]
            begins == q.passes # p.passes
        IN  /\ begins =>
                /\ q.passes = p.passes + 1
                /\ q.pass = PassAfter(p.pass, p.passes)
                /\ p.at \in {"idle", "pass_end"}
            /\ q.pass # p.pass => begins
            /\ cb'[i].bit_plane_shift # cb[i].bit_plane_shift =>
                \/ p.at = "idle" /\ ~begins
                \/ begins /\ q.pass = "significance"
            /\ begins /\ q.pass = "significance" =>
                cb'[i].bit_plane_shift = (cb[i].bit_plane_shift - 1) % 256
            /\ begins /\ q.pass # "significance" =>
                cb'[i].bit_plane_shift = cb[i].bit_plane_shift
      ]_vars

C4_Witness ==
    \E i \in Ids :
        /\ pc[i].passes = 7
        /\ pc[i].pass = "cleanup"
        /\ pc[i].at = "ok"
        /\ cb[i].bit_plane_shift = pc[i].mb - 1 - pc[i].zbp - 2

Abs(n) == IF n < 0 THEN -n ELSE n

\* Decoder i was constructed with 1 <= M_b and at most M_b - 1 zero bit-planes
WellFormed(i) == pc[i].mb >= 1 /\ pc[i].zbp <= pc[i].mb - 1

\* C5 (as claimed): after decode returned Ok, coefficients() has width*height
\* entries in row-major order, each of magnitude below 2^M_b, and 0 for every
\* insignificant cell.
C5_CoefficientsBounded ==
    \A i \in Ids :
        pc[i].at = "ok" /\ WellFormed(i) /\ coefficients(cb[i]).ok =>
            LET v == coefficients(cb[i]).v
                d == cb[i]
            IN  /\ Len(v) = d.width * d.height
                /\ \A y \in 0 .. d.height - 1, x \in 0 .. d.width - 1 :
                    LET c == v[d.width * y + x + 1] IN
                    /\ Abs(c) < Pow2(pc[i].mb)
                    /\ ~is_significant(d, y, x) => c = 0

\* C6 (as claimed): decode ends by returning Ok or Err, whatever the bit
\* source answers: it never ends in a panic (here for a well-formed decoder
\* whose magnitudes fit 16 bits and a bit source that never runs out).
C6_DecodeReturns ==
    \A i \in Ids :
        coder[i].kind = "free" /\ WellFormed(i) /\ pc[i].mb <= 15 =>
            ~(pc[i].at = "panic" /\ pc[i].op = "decode")

\* C7: after new(width, height, subband, no_passes, M_b) and
\* num_zero_bit_plane(n) with 1 <= M_b and n <= M_b - 1, bit_plane_shift is
\* M_b - 1 - n and all width*height cells are Insignificant(255).
C7_Constructed ==
    \A i \in Ids :
        pc[i].passes = 0 /\ pc[i].mb >= 1 /\ pc[i].zbp <= pc[i].mb - 1 =>
            /\ pc[i].at = "idle"
            /\ cb[i].bit_plane_shift = pc[i].mb - 1 - pc[i].zbp
            /\ Len(cb[i].coefficients) = cb[i].width * cb[i].height
            /\ \A k \in 1 .. Len(cb[i].coefficients) :
                cb[i].coefficients[k] = Insignificant(U8_MAX)

C7_Witness ==
    \E i \in Ids :
        /\ pc[i].op = "num_zero_bit_plane"
        /\ pc[i].at = "idle"
        /\ pc[i].zbp = 2
        /\ pc[i].mb = 9
        /\ cb[i].bit_plane_shift = 6

\* The test whose trace coder i replays
TestOf(i) == CHOOSE t \in Tests : t.exp = coder[i].exp

\* C8: two decodes, each with its own decoder and coder, interleaved in any
\* order of their decode_bit calls, end as each ends when run alone: the same
\* coefficients, the same contexts asked of the coder, the same result.
C8_Independent ==
    \A i \in Ids :
        pc[i].at \in {"ok", "panic"} => S(i) = Alone(TestOf(i))

C8_Witness ==
    /\ Ids = {1, 2}
    /\ IsTest(1, J10a) /\ IsTest(2, J10b)
    /\ pc[1].at = "ok" /\ coefficients(cb[1]).v = J10a.exp_coeffs
    /\ pc[2].at = "sign" /\ coder[2].index = 11

\* C9: coefficients() leaves the decoder as it was and returns the signed
\* values of its cells; a second call returns the same vector; before any
\* decode the vector is width*height zeros.
C9_CoefficientsReadOnly ==
    [][\A i \in Ids :
        ret'[i] # <<>> =>
            /\ cb'[i] = cb[i]
            /\ pc'[i] = pc[i]
            /\ coder'[i] = coder[i]
            /\ ret'[i] = coefficients(cb'[i]).v
            /\ ret[i] # <<>> => ret'[i] = ret[i]
            /\ pc'[i].passes = 0 =>
                ret'[i] = [k \in 1 .. cb[i].width * cb[i].height |-> 0]
      ]_vars

C9_Witness ==
    \E i \in Ids :
        /\ pc[i].at = "ok"
        /\ ret[i] # <<>>
        /\ \E k \in 1 .. Len(ret[i]) : ret[i][k] < 0
        /\ \E k \in 1 .. Len(ret[i]) : ret[i][k] = 0

\* C10 (as claimed): for M_b up to 38 and a shift s <= M_b - 1, a cell made
\* significant at shift s stores the positive magnitude 2^s.
C10_SignificantAtShift ==
    \A i \in Ids :
        pc[i].at = "sign" /\ pc[i].mb <= 38
            /\ cb[i].bit_plane_shift <= pc[i].mb - 1 =>
            coeff_at(cb[i], pc[i].y, pc[i].x).value = Pow2(cb[i].bit_plane_shift)

----------------------------------------------------------------------------
(* Properties of the JP2 container parser *)

\* The boxes that were open when the last box header was read
Enclosing == IF jp2.at = "error" THEN jp2.open ELSE SubSeq(jp2.open, 1, Len(jp2.open) - 1)

\* The last read_box opened a box whose payload has n bytes and follows a
\* header of h bytes that starts at start
Opened(start, h, n) ==
    jp2.at # "error" =>
        /\ Top(jp2).header = h
        /\ Top(jp2).offset = start + h
        /\ Top(jp2).length = n

\* The last read_box reported a length underflow
Underflow == jp2.at = "error" /\ jp2.err = "LengthUnderflow"

\* C11: read_box takes the payload size from the header: L64 - 16 when the
\* 32-bit length is 1, up to the end of the source when it is 0, L32 - 8
\* otherwise; a length below the size of the header (L32 in 2..7, L64 < 16)
\* is a length-underflow error, and no opened box has a wrapped size.
C11_PayloadSize ==
    jp2.op = "read_box" =>
        LET start == jp2.read[1]
            end == Limit(jp2.source, Enclosing)
            L32 == be(SubSeq(jp2.source, start + 1, start + 4))
            L64 == be(SubSeq(jp2.source, start + 9, start + 16))
        IN  /\ jp2.at # "error" =>
                Top(jp2).length >= 0 /\ Top(jp2).length <= Len(jp2.source)
            /\ start + 8 <= end =>
                /\ L32 = 1 /\ start + 16 <= end =>
                    IF L64 < 16 THEN Underflow ELSE Opened(start, 16, L64 - 16)
                /\ L32 = 0 => Opened(start, 8, end - (start + 8))
                /\ L32 \in 2 .. 7 => Underflow
                /\ L32 >= 8 => Opened(start, 8, L32 - 8)

C11_Witness ==
    /\ jp2.op = "read_box"
    /\ Underflow
    /\ jp2.read[2] = jp2.read[1] + 16
    /\ be(SubSeq(jp2.source, jp2.read[1] + 9, jp2.read[1] + 16)) = 15

\* The boxes whose bounded sub-readers were open during the last read
Bounding == IF jp2.op = "read_box" THEN Enclosing ELSE jp2.open

\* The box that the last close completed
Closed == LET s == Siblings(jp2) IN s[Len(s)]

\* C12: a box parser never reads beyond the payload its box declares: every
\* read lies inside the source and inside the payload of every box open
\* around it; after a box is parsed (a child of jp2h, res or uinf included)
\* the source stands exactly at the end of the box; payload bytes that the
\* parser left unread are an extra-payload error.
C12_BoundedReads ==
    /\ 0 <= jp2.read[1] /\ jp2.read[1] <= jp2.read[2] /\ jp2.read[2] <= Len(jp2.source)
    /\ jp2.read[2] <= jp2.pos
    /\ \A k \in 1 .. Len(Bounding) :
           /\ Bounding[k].offset <= jp2.read[1]
           /\ jp2.read[2] <= Bounding[k].offset + Bounding[k].length
    /\ \A k \in 1 .. Len(jp2.open) :
           jp2.at # "error" => jp2.pos <= jp2.open[k].offset + jp2.open[k].length
    /\ jp2.op = "close" /\ jp2.at # "error" => jp2.pos = Closed.offset + Closed.length
    /\ jp2.op = "close" /\ jp2.at = "error" /\ jp2.pos # Top(jp2).offset + Top(jp2).length =>
           jp2.err = "ExtraPayload" /\ jp2.pos < Top(jp2).offset + Top(jp2).length
    /\ jp2.err = "ExtraPayload" =>
           jp2.op = "close" /\ jp2.pos < Top(jp2).offset + Top(jp2).length

C12_Witness ==
    /\ jp2.err = "ExtraPayload"
    /\ Len(jp2.open) = 2
    /\ jp2.open[1].identifier = ID_HEADER
    /\ Top(jp2).identifier = ID_IMAGE_HEADER
    /\ jp2.pos < Top(jp2).offset + Top(jp2).length

\* The sum of length() over boxes
RECURSIVE SumLengths(_)
SumLengths(boxes) ==
    IF boxes = <<>> THEN 0
    ELSE SumLengths(SubSeq(boxes, 1, Len(boxes) - 1)) + boxes[Len(boxes)].length

\* The sum of the header sizes of boxes
RECURSIVE SumHeaders(_)
SumHeaders(boxes) ==
    IF boxes = <<>> THEN 0
    ELSE SumHeaders(SubSeq(boxes, 1, Len(boxes) - 1)) + boxes[Len(boxes)].header

\* C13 as stated: length() counts the header, so that the length() of the
\* top-level boxes of a parsed file sum to the length of the source and every
\* top-level box starts where the one before it ends:
\* offset(next) = offset(prev) + length(prev).
C13_TotalLengths ==
    jp2.at = "done" =>
        LET boxes == jp2.file.boxes IN
        /\ SumLengths(boxes) = Len(jp2.source)
        /\ \A k \in 1 .. Len(boxes) - 1 :
               boxes[k + 1].offset = boxes[k].offset + boxes[k].length

\* C13 amended: length() is the size of the payload and offset() where the
\* payload starts; between two consecutive top-level boxes lies the header of
\* the second one, and the length() of the top-level boxes of a parsed file
\* together with their headers sum to the length of the source.
C13_PayloadLengths ==
    LET boxes == jp2.file.boxes IN
    /\ \A k \in 1 .. Len(boxes) :
           /\ boxes[k].header \in {8, 16}
           /\ boxes[k].offset =
                  (IF k = 1 THEN 0 ELSE boxes[k - 1].offset + boxes[k - 1].length)
                  + boxes[k].header
           /\ boxes[k].length =
                  LET L32 == be(SubSeq(jp2.source, boxes[k].offset - 7, boxes[k].offset - 4))
                      L64 == be(SubSeq(jp2.source, boxes[k].offset - 7, boxes[k].offset))
                  IN  IF boxes[k].header = 16 THEN L64 - 16
                      ELSE IF L32 = 0 THEN Len(jp2.source) - boxes[k].offset
                      ELSE L32 - 8
    /\ jp2.at = "done" => SumLengths(boxes) + SumHeaders(boxes) = Len(jp2.source)
    /\ jp2.at = "done" /\ jp2.source = GeoJp2 =>
           /\ jp2.file.uuid_boxes[1].offset = 85
           /\ jp2.file.uuid_boxes[1].length = 372
           /\ Len(jp2.file.uuid_boxes[1].fields.data) = 356
           /\ jp2.file.xml_boxes[1].offset = 465
           /\ jp2.file.xml_boxes[1].length = 127

C13_Witness ==
    /\ jp2.at = "done"
    /\ jp2.source = GeoJp2
    /\ jp2.file.uuid_boxes[1].offset + jp2.file.uuid_boxes[1].length + 8
           = jp2.file.xml_boxes[1].offset
    /\ jp2.file.xml_boxes[1].length = 127

\* The boxes among boxes that have identifier T
Of(boxes, T) == { k \in 1 .. Len(boxes) : boxes[k].identifier = T }

\* C14: a file that decode_jp2 accepts starts with the signature box holding
\* 0D 0A 87 0A, continues with the file type box of brand "jp2 ", minimum
\* version 0 and "jp2 " in its compatibility list, and has exactly one jp2h
\* box, with an ihdr child, and at least one jp2c box; a file lacking any of
\* these is not accepted.
C14_Accepted ==
    jp2.at = "done" =>
        LET boxes == jp2.file.boxes IN
        /\ Len(boxes) >= 4
        /\ boxes[1].identifier = ID_SIGNATURE
        /\ boxes[1].fields.signature = SIGNATURE_MAGIC
        /\ jp2.file.signature_box = Some(boxes[1])
        /\ SubSeq(jp2.source, 1, 12) = <<0, 0, 0, 12>> \o ID_SIGNATURE \o SIGNATURE_MAGIC
        /\ boxes[2].identifier = ID_FILE_TYPE
        /\ boxes[2].fields.brand = BRAND_JP2
        /\ boxes[2].fields.min_version = 0
        /\ \E k \in 1 .. Len(boxes[2].fields.compatibility_list) :
               boxes[2].fields.compatibility_list[k] = BRAND_JP2
        /\ jp2.file.file_type_box = Some(boxes[2])
        /\ Cardinality(Of(boxes, ID_HEADER)) = 1
        /\ \A k \in Of(boxes, ID_HEADER) :
               /\ jp2.file.header_box = Some(boxes[k])
               /\ Cardinality(Of(boxes[k].children, ID_IMAGE_HEADER)) = 1
        /\ Cardinality(Of(boxes, ID_CODESTREAM)) >= 1
        /\ Len(jp2.file.contiguous_codestreams_boxes) = Cardinality(Of(boxes, ID_CODESTREAM))

C14_Witness ==
    /\ jp2.at = "done"
    /\ Cardinality(Of(jp2.file.boxes, ID_CODESTREAM)) = 2
    /\ Len(jp2.file.header_box[1].children) = 2

\* The identifiers the top level knows
KnownTop ==
    {ID_SIGNATURE, ID_FILE_TYPE, ID_HEADER, ID_CODESTREAM, ID_INTELLECTUAL_PROPERTY,
     ID_XML, ID_UUID, ID_UUID_INFO}

\* The last read_box read a whole header that declares a length no smaller
\* than itself
HeaderRead ==
    /\ jp2.op = "read_box"
    /\ jp2.read[2] - jp2.read[1] \in {8, 16}
    /\ ~(jp2.at = "error" /\ jp2.err \in {"UnexpectedEof", "TruncatedBox", "LengthUnderflow"})

ColrParsed == jp2.op = "colour_specification" /\ jp2.at = "close"

PclrParsed == jp2.op = "palette" /\ jp2.at = "close"

\* The values of one entry row read from bytes one after the other, a column
\* of depth d taking (d + 7) \div 8 bytes, two's complement when signed
RECURSIVE ReadRow(_, _)
ReadRow(bytes, bpcs) ==
    IF bpcs = <<>> THEN <<>>
    ELSE LET w == ((bpcs[1] % 128) + 1 + 7) \div 8
             v == be(SubSeq(bytes, 1, w))
         IN  <<IF bpcs[1] >= 128 /\ bytes[1] >= 128 THEN v - Pow2(8 * w) ELSE v>>
             \o ReadRow(SubSeq(bytes, w + 1, Len(bytes)), SubSeq(bpcs, 2, Len(bpcs)))

\* The bytes of an entry row of columns bpcs
RECURSIVE RowBytes(_)
RowBytes(bpcs) ==
    IF bpcs = <<>> THEN 0
    ELSE ((bpcs[1] % 128) + 1 + 7) \div 8 + RowBytes(SubSeq(bpcs, 2, Len(bpcs)))

\* C17: of a parsed palette box, entry(i, c) is present exactly when
\* i < num_entries and c < num_components, bit_depth(k) is present exactly
\* when k < num_components, and every entry row holds num_components values,
\* the values that stand in the source in that order.
C17_Palette ==
    PclrParsed =>
        LET pclr == Top(jp2).fields
            at == Top(jp2).offset
            NE == be(SubSeq(jp2.source, at + 1, at + 2))
            NC == jp2.source[at + 3]
            bpcs == SubSeq(jp2.source, at + 4, at + 3 + NC)
            row == RowBytes(bpcs)
        IN  /\ pclr.num_entries = NE
            /\ pclr.num_components = NC
            /\ \A i \in 0 .. NE + 1 : \A c \in 0 .. NC + 1 :
                   entry(pclr, i, c) # None <=> i < NE /\ c < NC
            /\ \A k \in 0 .. NC + 1 : bit_depth(pclr, k) # None <=> k < NC
            /\ \A k \in 0 .. NC - 1 :
                   bit_depth(pclr, k) = Some([value |-> (bpcs[k + 1] % 128) + 1,
                                              signed |-> bpcs[k + 1] >= 128])
            /\ Len(pclr.entries) = NE
            /\ \A i \in 0 .. NE - 1 :
                   LET values == ReadRow(SubSeq(jp2.source, at + 3 + NC + i * row + 1,
                                                at + 3 + NC + (i + 1) * row), bpcs)
                   IN  /\ Len(pclr.entries[i + 1]) = NC
                       /\ \A c \in 0 .. NC - 1 : entry(pclr, i, c) = Some(values[c + 1])
            /\ jp2.source = File9 =>
                   /\ NE = 256 /\ NC = 3
                   /\ bit_depth(pclr, 2) = Some([value |-> 8, signed |-> FALSE])
                   /\ bit_depth(pclr, 3) = None
                   /\ entry(pclr, 2, 0) = Some(23)
                   /\ entry(pclr, 2, 1) = Some(12)
                   /\ entry(pclr, 2, 2) = Some(21)
                   /\ entry(pclr, 2, 3) = None
                   /\ entry(pclr, 214, 0) = Some(165)
                   /\ entry(pclr, 252, 2) = Some(9)
                   /\ entry(pclr, 255, 1) = Some(245)
                   /\ entry(pclr, 256, 0) = None

C17_Witness ==
    /\ PclrParsed
    /\ jp2.source = File9
    /\ entry(Top(jp2).fields, 214, 1) = Some(132)
    /\ entry(Top(jp2).fields, 214, 3) = None
    /\ bit_depth(Top(jp2).fields, 3) = None

----------------------------------------------------------------------------
(* Properties of the contexts *)

\* The cell (y, x) of decoder d, looked up in the lattice itself
Cell(d, y, x) ==
    IF x \in 0 .. d.width - 1 /\ y \in 0 .. d.height - 1
    THEN d.coefficients[d.width * y + x + 1]
    ELSE Insignificant(U8_MAX)

\* How many of the cells at the offsets ds from (y, x) are significant
Count(d, y, x, ds) ==
    Cardinality({ o \in ds : Cell(d, y + o[1], x + o[2]).tag = "Significant" })

Horizontal == {<<0, -1>>, <<0, 1>>}
Vertical == {<<-1, 0>>, <<1, 0>>}
Diagonal == {<<-1, -1>>, <<-1, 1>>, <<1, -1>>, <<1, 1>>}

\* v shifted right by n binary places
ShiftedRight(v, n) == IF n >= 30 THEN (IF v < 0 THEN -1 ELSE 0) ELSE v \div Pow2(n)

\* Decoder i is about to ask a magnitude context for the cell it visits
Refines(i) ==
    /\ pc[i].at = "cell"
    /\ pc[i].pass = "refinement"
    /\ Cell(cb[i], pc[i].y, pc[i].x).tag = "Significant"
    /\ is_bit_plane_set(cb[i], pc[i].y, pc[i].x) = Val(FALSE)
    /\ magnitude_context(cb[i], pc[i].y, pc[i].x).ok

\* C20: in every bit-plane of the magnitude budget (bit_plane_shift < M_b)
\* the magnitude-refinement context of a significant cell is 16 exactly when
\* the cell has been refined in an earlier bit-plane; on its first refinement
\* the magnitude shifted right by bit_plane_shift + 1 is 1 and the context is
\* 15 when one of the eight neighbours is significant, else 14.
C20_MagnitudeContext ==
    [][\A i \in DOMAIN cb :
          Refines(i) /\ cb[i].bit_plane_shift < pc[i].mb =>
              LET y == pc[i].y
                  x == pc[i].x
                  first == <<y, x>> \notin pc[i].refined
                  cx == coder'[i].cx
              IN  /\ cx = 16 <=> ~first
                  /\ first =>
                        /\ ShiftedRight(Cell(cb[i], y, x).value, cb[i].bit_plane_shift + 1) = 1
                        /\ cx = IF Count(cb[i], y, x, Horizontal \cup Vertical \cup Diagonal) > 0
                                THEN 15 ELSE 14]_vars

----------------------------------------------------------------------------
(* The significance pass at the middle cell of a 3x3 code-block, every     *)
(* configuration of its eight neighbours, driven by a MockCoder that       *)
(* expects the contexts of Tables D.1 and D.3                              *)

\* Table D.1 as the specification gives it
TableLL(h, v, d) ==
    CASE h = 0 /\ v = 0 /\ d = 0 -> 0
      [] h = 0 /\ v = 0 /\ d = 1 -> 1
      [] h = 0 /\ v = 0 /\ d >= 2 -> 2
      [] h = 0 /\ v = 1 -> 3
      [] h = 0 /\ v = 2 -> 4
      [] h = 1 /\ v = 0 /\ d = 0 -> 5
      [] h = 1 /\ v = 0 /\ d >= 1 -> 6
      [] h = 1 /\ v >= 1 -> 7
      [] h = 2 -> 8

TableHH(a, d) ==
    CASE a = 0 /\ d = 0 -> 0
      [] a = 1 /\ d = 0 -> 1
      [] a >= 2 /\ d = 0 -> 2
      [] a = 0 /\ d = 1 -> 3
      [] a = 1 /\ d = 1 -> 4
      [] a >= 2 /\ d = 1 -> 5
      [] a = 0 /\ d = 2 -> 6
      [] a >= 1 /\ d = 2 -> 7
      [] d >= 3 -> 8

TableD1(subband, h, v, d) ==
    CASE subband \in {"LL", "LH"} -> TableLL(h, v, d)
      [] subband = "HL" -> TableLL(v, h, d)
      [] subband = "HH" -> TableHH(h + v, d)

\* Table D.3 of ITU-T T.800: <<context, xor>> for the horizontal and the
\* vertical contribution
TableD3(hc, vc) ==
    CASE hc = 1 -> <<12 + vc, 0>>
      [] hc = 0 /\ vc = 1 -> <<10, 0>>
      [] hc = 0 /\ vc = 0 -> <<9, 0>>
      [] hc = 0 /\ vc = -1 -> <<10, 1>>
      [] hc = -1 -> <<12 - vc, 1>>

\* The sum of the sign contributions (Table D.2) of the cells at the offsets
\* ds from (y, x), brought into -1 .. 1
Clamped(d, y, x, ds) ==
    LET plus == Cardinality({ o \in ds : /\ Cell(d, y + o[1], x + o[2]).tag = "Significant"
                                         /\ ~Cell(d, y + o[1], x + o[2]).is_negative })
        minus == Count(d, y, x, ds) - plus
    IN  IF plus > minus THEN 1 ELSE IF plus < minus THEN -1 ELSE 0

\* M_b of the 3x3 code-block: the Cleanup pass of bit-plane CtxMb - 1 has run,
\* the significance pass of the bit-plane below it runs
CtxMb == 3

\* The neighbours of the middle cell: each orthogonal one insignificant,
\* positive or negative, each diagonal one insignificant or positive
Neighbourhoods ==
    { f \in [(Horizontal \cup Vertical \cup Diagonal) -> {"I", "+", "-"}] :
        \A o \in Diagonal : f[o] # "-" }

\* The lattice with neighbourhood f around the middle cell: the significant
\* cells were found in the Cleanup pass; an insignificant cell that the
\* significance pass has visited before the middle cell, next to a
\* significant one, carries the mark of the bit it decoded as 0
Lattice(f, shift) ==
    LET sig == [k \in 1 .. 9 |->
                   LET o == <<((k - 1) \div 3) - 1, ((k - 1) % 3) - 1>> IN
                   IF o = <<0, 0>> THEN "I" ELSE f[o]]
        near(k) == \E j \in 1 .. 9 :
                      /\ j # k
                      /\ sig[j] # "I"
                      /\ ((j - 1) \div 3) - ((k - 1) \div 3) \in -1 .. 1
                      /\ ((j - 1) % 3) - ((k - 1) % 3) \in -1 .. 1
    IN  [k \in 1 .. 9 |->
            IF sig[k] # "I" THEN Significant(Pow2(shift + 1), sig[k] = "-")
            ELSE IF k \in {1, 2, 4, 7} /\ near(k) THEN Insignificant(shift)
            ELSE Insignificant(U8_MAX)]

\* What a MockCoder is told to expect at the middle cell: nothing when the
\* context is 0, else the significance decode, and the sign decode after a 1
Expectations(d) ==
    LET cx == TableD1(d.subband, Count(d, 1, 1, Horizontal), Count(d, 1, 1, Vertical),
                      Count(d, 1, 1, Diagonal))
        sign == TableD3(Clamped(d, 1, 1, Horizontal), Clamped(d, 1, 1, Vertical))[1]
    IN  IF cx = 0 THEN { <<>> }
        ELSE { << <<cx, 0>> >> } \cup { << <<cx, 1>>, <<sign, b>> >> : b \in {0, 1} }

InitCtx ==
    /\ overflow_checks = TRUE
    /\ \E subband \in SubBandType, f \in Neighbourhoods :
          LET s == new(3, 3, subband, 4, CtxMb, FreeCoder)
              d == [s.cb EXCEPT !.bit_plane_shift = CtxMb - 2,
                                !.coefficients = Lattice(f, CtxMb - 2)]
              p == [s.pc EXCEPT !.at = "cell", !.pass = "significance", !.passes = 2,
                                !.k = 1, !.x = 1, !.y = 1, !.op = "decode"]
          IN  \E exp \in Expectations(d) : Start(1, St(d, MockCoder(exp), p))

NextCtx ==
    \/ \E i \in DOMAIN cb : PassSignificanceCell(i)
    \/ \E i \in DOMAIN cb : DecodeSignBit(i)

SpecCtx == InitCtx /\ [][NextCtx]_vars

\* Decoder i visits an insignificant cell in the significance pass
Visits(i) ==
    /\ pc[i].at = "cell"
    /\ pc[i].pass = "significance"
    /\ Cell(cb[i], pc[i].y, pc[i].x).tag = "Insignificant"

\* The Table D.1 label of the cell decoder i is at
LabelD1(i) ==
    TableD1(cb[i].subband, Count(cb[i], pc[i].y, pc[i].x, Horizontal),
            Count(cb[i], pc[i].y, pc[i].x, Vertical),
            Count(cb[i], pc[i].y, pc[i].x, Diagonal))

\* C18: for every subband and all counts h in 0..2, v in 0..2, d in 0..4 of
\* significant neighbours, significance_context returns the label of Table
\* D.1 as the specification gives it: the LL/LH table on (h, v, d), for HL
\* the same table with h and v swapped, for HH the table on (h + v, d); the
\* significance pass decodes with that label.
C18_TableD1 ==
    /\ \A h \in 0 .. 2, v \in 0 .. 2, d \in 0 .. 4 :
           /\ significance_table("LL", h, v, d) = TableLL(h, v, d)
           /\ significance_table("LH", h, v, d) = TableLL(h, v, d)
           /\ significance_table("HL", h, v, d) = significance_table("LL", v, h, d)
           /\ significance_table("HH", h, v, d) = TableHH(h + v, d)
    /\ \A i \in DOMAIN cb :
           /\ Visits(i) => significance_context(cb[i], pc[i].y, pc[i].x) = LabelD1(i)
           /\ pc[i].at = "sign" => coder[i].cx = LabelD1(i)
           /\ pc[i].at = "panic" /\ coder[i].index = 0 => <<pc[i].y, pc[i].x>> # <<1, 1>>

C18_Witness ==
    /\ pc[1].at = "sign"
    /\ cb[1].subband = "HL"
    /\ Count(cb[1], 1, 1, Horizontal) = 2
    /\ Count(cb[1], 1, 1, Vertical) = 1
    /\ Count(cb[1], 1, 1, Diagonal) = 4
    /\ coder[1].cx = 7

\* The pair of Table D.3 for the cell decoder i is at
PairD3(i) ==
    TableD3(Clamped(cb[i], pc[i].y, pc[i].x, Horizontal),
            Clamped(cb[i], pc[i].y, pc[i].x, Vertical))

\* The pair sign_table gives for the negated contributions of the cell
\* decoder i is at
Negated(i) ==
    sign_table(0 - Clamped(cb[i], pc[i].y, pc[i].x, Horizontal),
               0 - Clamped(cb[i], pc[i].y, pc[i].x, Vertical))

\* C19 as stated: the sign of a cell that has just become significant is
\* decoded with the pair of Table D.3 for its clamped contributions, and
\* negating both contributions keeps the context and flips xor.
C19_SignFlip ==
    \A i \in DOMAIN cb :
        pc[i].at = "sign" =>
            /\ sign_context(cb[i], pc[i].y, pc[i].x) = PairD3(i)
            /\ Negated(i) = <<PairD3(i)[1], 1 - PairD3(i)[2]>>

\* C19 amended: the sign of a cell that has just become significant is
\* decoded with the <<context, xor>> pair of Table D.3 for the clamped
\* horizontal and vertical contributions of its orthogonal neighbours, the
\* context in 9 .. 13; is_negative becomes (bit XOR xor) # 0; negating both
\* contributions keeps the context and flips xor, except that the pair of
\* two zero contributions, <<9, 0>>, is its own mirror image.
C19_TableD3 ==
    \A i \in DOMAIN cb :
        /\ pc[i].at = "sign" =>
               /\ sign_context(cb[i], pc[i].y, pc[i].x) = PairD3(i)
               /\ PairD3(i)[1] \in 9 .. 13
               /\ PairD3(i)[2] \in {0, 1}
               /\ Negated(i)[1] = PairD3(i)[1]
               /\ Negated(i)[2] = IF PairD3(i) = <<9, 0>> THEN 0 ELSE 1 - PairD3(i)[2]
        /\ coder[i].index = 2 =>
               LET xor == TableD3(Clamped(cb[i], 1, 1, Horizontal),
                                  Clamped(cb[i], 1, 1, Vertical))
                   bit == coder[i].exp[2][2]
               IN  /\ Cell(cb[i], 1, 1).tag = "Significant"
                   /\ Cell(cb[i], 1, 1).is_negative = (bit # xor[2])
                   /\ pc[i].at # "panic" => coder[i].cx = xor[1]
                   /\ pc[i].at = "panic" => <<pc[i].y, pc[i].x>> # <<1, 1>>

C19_Witness ==
    /\ coder[1].index = 2
    /\ pc[1].at # "panic"
    /\ coder[1].cx = 11
    /\ coder[1].exp[2][2] = 0
    /\ Clamped(cb[1], 1, 1, Horizontal) = -1
    /\ Clamped(cb[1], 1, 1, Vertical) = 1
    /\ Cell(cb[1], 1, 1).is_negative

----------------------------------------------------------------------------
(* Properties of the passes *)

\* The offsets in ds from (y, x) that lie in the lattice of d and hold a
\* significant cell, read from the coefficients themselves
Inside(d, y, x, ds) ==
    { o \in ds : /\ y + o[1] \in 0 .. d.height - 1
                 /\ x + o[2] \in 0 .. d.width - 1
                 /\ d.coefficients[d.width * (y + o[1]) + x + o[2] + 1].tag = "Significant" }

\* The sum of the sign contributions of the lattice cells at the offsets ds
\* from (y, x), brought into -1 .. 1
InsideSign(d, y, x, ds) ==
    LET minus == { o \in Inside(d, y, x, ds) :
                     d.coefficients[d.width * (y + o[1]) + x + o[2] + 1].is_negative }
        n == Cardinality(Inside(d, y, x, ds)) - 2 * Cardinality(minus)
    IN  IF n > 0 THEN 1 ELSE IF n < 0 THEN -1 ELSE 0

AtCell(i, pass) == pc[i].at = "cell" /\ pc[i].pass = pass

\* The cell decoder i is at
Here(i) == Cell(cb[i], pc[i].y, pc[i].x)

\* The step asks the coder of decoder i for one bit, with context cx
Asks(i, cx) ==
    /\ coder'[i].index = coder[i].index + 1
    /\ coder'[i].cx = cx

\* C22: in a significance-propagation pass a cell that is already
\* significant, or whose significance context is 0 when it is visited, gets
\* no bit decoded and is left as it is; every other cell gets one bit decoded
\* with its context, so that decode_bit is never called with context 0 in a
\* significance-propagation pass.
C22_SignificanceSkips ==
    [][\A i \in DOMAIN cb :
          /\ AtCell(i, "significance") =>
                IF Here(i).tag = "Significant" \/ LabelD1(i) = 0
                THEN coder'[i] = coder[i] /\ cb'[i] = cb[i]
                ELSE Asks(i, LabelD1(i))
          /\ pc[i].pass = "significance" /\ coder'[i].index # coder[i].index =>
                coder'[i].cx # 0]_vars

C22_Witness ==
    /\ AtCell(1, "significance")
    /\ cb[1].height = 5
    /\ pc[1].y = 3
    /\ Cell(cb[1], 4, 0).tag = "Significant"
    /\ \A y \in 0 .. 2 : Cell(cb[1], y, 0) = Insignificant(U8_MAX)
    /\ coder[1].cx = 9

\* Cell k of decoder i was decoded as 0 by the significance pass of the
\* bit-plane the decoder is in
DecodedZero(i, k) == cb[i].coefficients[k] = Insignificant(cb[i].bit_plane_shift)

\* C23: a cell for which the significance-propagation pass of a bit-plane
\* decoded 0 stays insignificant for as long as the decoder is in that
\* bit-plane, and the cleanup pass of that bit-plane decodes no bit when it
\* visits the cell.
C23_DecodedZeroSkipped ==
    [][\A i \in DOMAIN cb :
          /\ \A k \in DOMAIN cb[i].coefficients :
                DecodedZero(i, k) => cb'[i].coefficients[k].tag = "Insignificant"
          /\ AtCell(i, "cleanup") /\ Here(i) = Insignificant(cb[i].bit_plane_shift) =>
                coder'[i] = coder[i]]_vars

\* The Table D.1 label of cell (y, x) of decoder i
LabelAt(i, y, x) ==
    TableD1(cb[i].subband, Count(cb[i], y, x, Horizontal), Count(cb[i], y, x, Vertical),
            Count(cb[i], y, x, Diagonal))

\* C24: in a cleanup pass the RUN_LEN bit is decoded only at the head of a
\* column strip of four rows whose cells are all insignificant, not yet
\* decoded in the current bit-plane, and each of significance context 0
\* (decision D8).
C24_RunLength ==
    [][\A i \in DOMAIN cb :
          Asks(i, RUN_LEN) =>
              /\ pc[i].at = "col"
              /\ pc[i].pass = "cleanup"
              /\ \A y \in pc[i].by .. pc[i].by + 3 :
                    /\ y < cb[i].height
                    /\ Cell(cb[i], y, pc[i].x).tag = "Insignificant"
                    /\ Cell(cb[i], y, pc[i].x).shift # cb[i].bit_plane_shift
                    /\ LabelAt(i, y, pc[i].x) = 0]_vars

\* Bit s of the two's complement value v is set
BitSet(v, s) == ShiftedRight(v, s) % 2 = 1

\* The index of cell (y, x) in the coefficients of decoder i
Index(i, y, x) == cb[i].width * y + x + 1

\* C25: in a magnitude-refinement pass at bit-plane shift s in 0 .. M_b - 2,
\* an insignificant cell and a cell whose magnitude has bit s set are skipped
\* without a decode; for every other significant cell one bit b is decoded
\* with a magnitude context and the magnitude becomes the old magnitude with
\* b OR-ed in at bit s (bit s was clear, so the old magnitude plus b * 2^s),
\* the sign unchanged.
C25_Refinement ==
    [][\A i \in DOMAIN cb :
          AtCell(i, "refinement") /\ cb[i].bit_plane_shift \in 0 .. pc[i].mb - 2 =>
              LET s == cb[i].bit_plane_shift
                  c == Here(i)
              IN  IF c.tag = "Insignificant" \/ BitSet(c.value, s)
                  THEN coder'[i] = coder[i] /\ cb'[i] = cb[i]
                  ELSE /\ coder'[i].cx \in 14 .. 16
                       /\ coder[i].kind # "mock" =>
                             /\ pc'[i].at # "panic"
                             /\ \E b \in {0, 1} :
                                   cb'[i] = [cb[i] EXCEPT
                                       !.coefficients[Index(i, pc[i].y, pc[i].x)] =
                                           Significant(c.value + b * Pow2(s), c.is_negative)]]_vars

\* Decoder i goes from column strip (by, x) to the head of the column strip
\* that follows it, or to the end of the pass after the last one
ToNextStrip(i) ==
    IF pc[i].x + 1 < cb[i].width
    THEN pc'[i].at = "col" /\ pc'[i].by = pc[i].by /\ pc'[i].x = pc[i].x + 1
    ELSE IF pc[i].by + 4 < cb[i].height
    THEN pc'[i].at = "col" /\ pc'[i].by = pc[i].by + 4 /\ pc'[i].x = 0
    ELSE pc'[i].at = "pass_end"

\* C26: in a cleanup pass, when the RUN_LEN bit decoded for a column strip is
\* 0, the RUN_LEN decode is the only decode of that column strip: none of
\* its cells (no cell at all) changes and the decoder goes on to the next
\* column strip, where the next decode_bit call is made.
C26_RunLengthZero ==
    [][\A i \in DOMAIN cb :
          Asks(i, RUN_LEN) /\ coder'[i].bit = 0 =>
              /\ cb'[i] = cb[i]
              /\ pc'[i].pass = "cleanup"
              /\ ToNextStrip(i)]_vars

C26_Witness ==
    /\ pc[1].at = "col"
    /\ pc[1].pass = "cleanup"
    /\ cb[1].width = 2
    /\ pc[1].x = 1
    /\ coder[1].cx = RUN_LEN
    /\ coder[1].bit = 0
    /\ coder[1].index = 1

\* The step makes cell (y, x) of decoder i significant at the bit-plane of
\* the decoder, changes no other cell, and leaves the cell's sign decode next
Found(i, y, x) ==
    /\ cb'[i] = [cb[i] EXCEPT !.coefficients[Index(i, y, x)] =
                                  Significant(Pow2(cb[i].bit_plane_shift), FALSE)]
    /\ pc'[i].at = "sign"
    /\ pc'[i].y = y
    /\ pc'[i].x = x

\* C27: in a cleanup pass, when the RUN_LEN bit is 1, two UNIFORM bits a
\* then b are decoded, c5 = 2a + b, the c5 cells above row by + c5 stay
\* unchanged with no bit decoded for them, cell (x, by + c5) becomes
\* significant with magnitude 2^bit_plane_shift and its sign is decoded
\* next; then every remaining row of the strip that is insignificant gets a
\* significance decode with its Table D.1 context, followed by the sign
\* decode when the bit is 1.
C27_RunLengthOne ==
    [][\A i \in DOMAIN cb :
          /\ Asks(i, RUN_LEN) /\ coder'[i].bit = 1 =>
                cb'[i] = cb[i] /\ pc'[i].at = "uniform_a"
          /\ pc[i].at = "uniform_a" =>
                Asks(i, UNIFORM) /\ cb'[i] = cb[i] /\ pc'[i].at = "uniform_b"
          /\ pc[i].at = "uniform_b" =>
                /\ Asks(i, UNIFORM)
                /\ Found(i, pc[i].by + 2 * coder[i].bit + coder'[i].bit, pc[i].x)
          /\ pc[i].at = "sign" /\ pc[i].d8 =>
                /\ coder'[i].index = coder[i].index + 1
                /\ coder'[i].cx \in 9 .. 13
                /\ cb'[i].coefficients[Index(i, pc[i].y, pc[i].x)].value = Here(i).value
                /\ pc[i].y + 1 < Min(pc[i].by + 4, cb[i].height) =>
                      AtCell(i, "cleanup")' /\ pc'[i].y = pc[i].y + 1 /\ pc'[i].x = pc[i].x
          /\ AtCell(i, "cleanup") /\ pc[i].d8 =>
                IF Here(i).tag = "Significant"
                THEN coder'[i] = coder[i] /\ cb'[i] = cb[i]
                ELSE /\ Asks(i, LabelD1(i))
                     /\ IF coder'[i].bit = 1 THEN Found(i, pc[i].y, pc[i].x)
                        ELSE cb'[i] = cb[i]]_vars

\* Decoder i considers a cell: it visits it or decodes its sign
Considers(i) == pc[i].at \in {"cell", "sign"}

\* The place of the cell decoder i considers in the scan of the lattice in
\* 4-tall column strips: <<floor(y / 4), x, y>>
Place(i) == <<pc[i].y \div 4, pc[i].x, pc[i].y>>

\* Place a comes before place b
Before(a, b) ==
    \/ a[1] < b[1]
    \/ a[1] = b[1] /\ a[2] < b[2]
    \/ a[1] = b[1] /\ a[2] = b[2] /\ a[3] < b[3]

\* The cell at place a is the last of the lattice of decoder i
Last(i, a) == a[3] = cb[i].height - 1 /\ a[2] = cb[i].width - 1

\* Place b is the place that follows place a in the lattice of decoder i
Follows(i, a, b) ==
    IF a[3] + 1 < Min(4 * a[1] + 4, cb[i].height) THEN b = <<a[1], a[2], a[3] + 1>>
    ELSE IF a[2] + 1 < cb[i].width THEN b = <<a[1], a[2] + 1, 4 * a[1]>>
    ELSE b = <<a[1] + 1, 0, 4 * a[1] + 4>> /\ 4 * a[1] + 4 < cb[i].height

MadeSignificant(i) ==
    { k \in DOMAIN cb[i].coefficients :
        /\ cb[i].coefficients[k].tag = "Insignificant"
        /\ cb'[i].coefficients[k].tag = "Significant" }

\* C29: whenever a step makes a cell significant, it makes that cell alone
\* significant, with is_negative = false, and the decoder is at the sign
\* decode of that cell; the next step of the decoder asks the coder for one
\* bit with the cell's sign context of Table D.3, in 9 .. 13, and writes the
\* sign of that cell and nothing else.  No step in between computes a
\* context.
C29_SignNext ==
    [][\A i \in DOMAIN cb :
          /\ MadeSignificant(i) # {} =>
                /\ pc'[i].at = "sign"
                /\ MadeSignificant(i) = {Index(i, pc'[i].y, pc'[i].x)}
                /\ ~Here(i)'.is_negative
          /\ pc'[i].at = "sign" => MadeSignificant(i) # {}
          /\ pc[i].at = "sign" =>
                /\ Here(i).tag = "Significant"
                /\ Asks(i, PairD3(i)[1])
                /\ PairD3(i)[1] \in 9 .. 13
                /\ cb'[i] = [cb[i] EXCEPT !.coefficients[Index(i, pc[i].y, pc[i].x)] =
                                Significant(Here(i).value, coder'[i].bit # PairD3(i)[2])]]_vars

C29_Witness ==
    /\ pc[1].pass = "significance"
    /\ pc[1].at # "sign"
    /\ coder[1].cx = 10
    /\ coder[1].bit = 0
    /\ Cell(cb[1], 3, 0) = Significant(1, TRUE)
    /\ Cell(cb[1], 4, 0) = Significant(2, TRUE)

\* The position of the highest bit set in v >= 1
RECURSIVE Log2(_)
Log2(v) == IF v <= 1 THEN 0 ELSE 1 + Log2(v \div 2)

\* C30: across any sequence of passes a cell that is Significant stays
\* Significant; when it becomes significant its magnitude is
\* 2^bit_plane_shift; afterwards the magnitude never decreases and changes
\* only in bits below its highest one, so that the magnitude of a cell that
\* became significant at bit-plane p stays in 2^p .. 2^(p+1) - 1, and the
\* cell's coefficient is not 0.
C30_SignificantForGood ==
    [][\A i \in DOMAIN cb : \A k \in DOMAIN cb[i].coefficients :
          LET c == cb[i].coefficients[k]
              n == cb'[i].coefficients[k]
          IN  /\ Len(cb'[i].coefficients) = Len(cb[i].coefficients)
              /\ c.tag = "Significant" =>
                    /\ n.tag = "Significant"
                    /\ c.value >= 1
                    /\ n.value >= c.value
                    /\ Log2(n.value) = Log2(c.value)
              /\ c.tag = "Insignificant" /\ n.tag = "Significant" =>
                    /\ cb[i].bit_plane_shift < 30
                    /\ n.value = Pow2(cb[i].bit_plane_shift)]_vars

----------------------------------------------------------------------------
(* Properties of the HT capabilities *)

\* The method called on the capabilities is op
Called(op) == ht.op = op

\* Bit n of the Ccap15 value
Ccap(n) == (ht.caps.bits \div Pow2(n)) % 2 = 1

\* The cleanup magnitude bound for the value b of the low five bits
Bound(b) ==
    IF b = 0 THEN 8
    ELSE IF b <= 19 THEN b + 8
    ELSE IF b <= 30 THEN 4 * (b - 19) + 27
    ELSE 74

\* C31: for every 16-bit Ccap15, magnitude_cleanup_bound depends only on
\* the low five bits b: it returns 8 for b = 0, b + 8 for 1 <= b <= 19,
\* 4 * (b - 19) + 27 for 20 <= b <= 30 and 74 for b = 31; the result lies in
\* 8 .. 74, is smaller than the result for b + 1, and the unreachable branch
\* is not taken.
C31_MagnitudeBound ==
    Called("magnitude_cleanup_bound") =>
        LET b == ht.caps.bits % 32 IN
        /\ ht.out.ok
        /\ ht.out.v = Bound(b)
        /\ ht.out.v \in 8 .. 74
        /\ b < 31 =>
              /\ magnitude_cleanup_bound(HtCapabilities(ht.caps.bits + 1)).ok
              /\ magnitude_cleanup_bound(HtCapabilities(ht.caps.bits + 1)).v > ht.out.v

C31_Witness ==
    /\ Called("magnitude_cleanup_bound")
    /\ ht.caps.bits = 47163
    /\ ht.out = Val(59)

\* C32: for every 16-bit Ccap15 the four pairs of predicates are exact
\* complements and each depends on one bit only: is_heterogenous_codestream
\* is bit 11, irreversible_transforms bit 5,
\* region_of_interest_marker_present bit 12, multiple_ht_set_per_codeblock
\* bit 13, and is_homogeneous_codestream, reversible_transforms,
\* no_region_of_interest_marker_present, single_ht_set_per_codeblock are
\* their negations.
C32_Complements ==
    /\ Called("is_heterogenous_codestream") => ht.out = Ccap(11)
    /\ Called("is_homogeneous_codestream") =>
           ht.out = ~Ccap(11) /\ ht.out = ~is_heterogenous_codestream(ht.caps)
    /\ Called("irreversible_transforms") => ht.out = Ccap(5)
    /\ Called("reversible_transforms") =>
           ht.out = ~Ccap(5) /\ ht.out = ~irreversible_transforms(ht.caps)
    /\ Called("region_of_interest_marker_present") => ht.out = Ccap(12)
    /\ Called("no_region_of_interest_marker_present") =>
           ht.out = ~Ccap(12) /\ ht.out = ~region_of_interest_marker_present(ht.caps)
    /\ Called("multiple_ht_set_per_codeblock") => ht.out = Ccap(13)
    /\ Called("single_ht_set_per_codeblock") =>
           ht.out = ~Ccap(13) /\ ht.out = ~multiple_ht_set_per_codeblock(ht.caps)

C32_Witness ==
    /\ Called("is_homogeneous_codestream")
    /\ ht.caps.bits = 43043
    /\ ht.out = FALSE
    /\ no_region_of_interest_marker_present(ht.caps)

\* C33: for every 16-bit Ccap15, code_block_style depends only on bits 14
\* and 15: it returns AllHt for 00, Reserved for 01, OneOrOther for 10 and
\* Mix for 11, and its unreachable branch is not taken.
C33_CodeBlockStyle ==
    Called("code_block_style") =>
        /\ ht.out.ok
        /\ ht.out.v = IF Ccap(15) THEN (IF Ccap(14) THEN "Mix" ELSE "OneOrOther")
                      ELSE (IF Ccap(14) THEN "Reserved" ELSE "AllHt")

C33_Witness ==
    /\ Called("code_block_style")
    /\ ht.caps.bits = 47163
    /\ ht.out = Val("OneOrOther")

----------------------------------------------------------------------------
(* Properties of the cells' states *)

\* The cells of decoder i that are significant
SignificantCells(i) ==
    { k \in DOMAIN cb[i].coefficients : cb[i].coefficients[k].tag = "Significant" }

\* C34: for every lattice, subband and bit sequence, the cell a run-length
\* decode is about to make significant is insignificant, a step makes a cell
\* significant only if it was insignificant and goes on to the sign decode of
\* that very cell, the sign decode is at a significant cell, and the
\* refinement pass tests the bit-plane of, and refines, significant cells
\* only.
C34_SignificantOnce ==
    [][\A i \in DOMAIN cb :
          /\ pc[i].at = "uniform_b" =>
                \A b \in {0, 1} :
                    coeff_at(cb[i], pc[i].by + 2 * pc[i].a + b, pc[i].x).tag = "Insignificant"
          /\ \A k \in DOMAIN cb[i].coefficients :
                cb'[i].coefficients[k].tag # cb[i].coefficients[k].tag =>
                    /\ cb[i].coefficients[k].tag = "Insignificant"
                    /\ pc[i].at \in {"uniform_b", "cell"}
                    /\ pc[i].pass # "refinement"
                    /\ pc'[i].at = "sign"
                    /\ k = Index(i, pc'[i].y, pc'[i].x)
          /\ pc[i].at = "sign" =>
                /\ Here(i).tag = "Significant"
                /\ SignificantCells(i) = { k \in DOMAIN cb'[i].coefficients :
                                             cb'[i].coefficients[k].tag = "Significant" }
          /\ AtCell(i, "refinement") /\ Here(i).tag = "Insignificant" =>
                cb'[i] = cb[i] /\ coder'[i] = coder[i] /\ pc'[i].at # "panic"
          /\ pc'[i].refined # pc[i].refined =>
                AtCell(i, "refinement") /\ Here(i).tag = "Significant"]_vars

C34_Witness ==
    /\ cb[1].height = 4
    /\ pc[1].at = "sign"
    /\ pc[1].pass = "cleanup"
    /\ pc[1].passes = 4
    /\ pc[1].y = 2
    /\ pc[1].refined = {<<0, 0>>}
    /\ SignificantCells(1) = {1, 3}

\* C35: the RUN_LEN bit is decoded only at a column strip with four rows in
\* the lattice (by + 4 <= height); at a last strip of fewer rows the cleanup
\* pass goes to the strip's first cell without a decode; the two rows a
\* run-length decode may make significant, and every cell a pass stands at,
\* are in the lattice, and no step fails.
C35_RunInLattice ==
    [][\A i \in DOMAIN cb :
          /\ Asks(i, RUN_LEN) => pc[i].by + 4 <= cb[i].height
          /\ pc[i].at = "col" /\ pc[i].by + 4 > cb[i].height =>
                /\ coder'[i] = coder[i]
                /\ cb'[i] = cb[i]
                /\ pc'[i].at = "cell"
                /\ pc'[i].y = pc[i].by
          /\ pc[i].at = "uniform_b" =>
                \A b \in {0, 1} : ~out_bounds(cb[i], pc[i].by + 2 * pc[i].a + b, pc[i].x)
          /\ pc'[i].at \in {"cell", "sign"} => ~out_bounds(cb'[i], pc'[i].y, pc'[i].x)
          /\ Len(cb'[i].coefficients) = cb[i].width * cb[i].height
          /\ pc'[i].at # "panic"]_vars

C35_Witness ==
    /\ cb[1].height = 5
    /\ pc[1].pass = "cleanup"
    /\ pc[1].passes = 1
    /\ pc[1].at = "cell"
    /\ pc[1].by = 4
    /\ pc[1].y = 4
    /\ SignificantCells(1) = {4}
    /\ coder[1].cx = 9

\* The cells of the lattice of decoder i, as <<y, x>>
Lattice_(i) == (0 .. cb[i].height - 1) \X (0 .. cb[i].width - 1)

\* The contexts of significance and sign of every cell of decoder i are
\* formed, and the coder was asked for no context outside 0 .. 18
FormedAt(i) ==
    /\ \A q \in Lattice_(i) :
          /\ significance_context(cb[i], q[1], q[2]) \in 0 .. 8
          /\ significance_context(cb[i], q[1], q[2]) = 0
                <=> Count(cb[i], q[1], q[2], Horizontal \cup Vertical \cup Diagonal) = 0
          /\ sign_context(cb[i], q[1], q[2])[1] \in 9 .. 13
          /\ sign_context(cb[i], q[1], q[2])[2] \in {0, 1}
    /\ coder[i].cx \in {-1} \cup 0 .. 8 \cup 9 .. 13 \cup 14 .. 16 \cup {RUN_LEN, UNIFORM}

\* The magnitude context of cell q of decoder i is formed
MagnitudeFormed(i, q) ==
    magnitude_context(cb[i], q[1], q[2]) \in {Val(14), Val(15), Val(16)}

----------------------------------------------------------------------------
(* Properties of the bit-plane shift *)

\* ceil((no_passes - 1) / 3), the number of times decode lowers the shift
PassSets(d) == (d.no_passes + 1) \div 3

\* The zero bit-planes n skipped so far and the pass sets of decoder d fit
\* in the magnitude budget of p
Budget(d, p) ==
    /\ p.mb >= 1
    /\ p.zbp <= p.mb - 1
    /\ PassSets(d) <= p.mb - 1 - p.zbp

\* The shift of d is in the budget left after n zero bit-planes, and it is
\* what is left after the pass sets when decode has returned
InBudget(d, p) ==
    /\ d.bit_plane_shift \in 0 .. p.mb - 1 - p.zbp
    /\ d.bit_plane_shift # U8_MAX
    /\ p.at = "ok" => d.bit_plane_shift = p.mb - 1 - p.zbp - PassSets(d)

\* C37: if n <= M_b - 1 and ceil((no_passes - 1) / 3) <= M_b - 1 - n, then
\* from construction until decode returns bit_plane_shift is in
\* 0 .. M_b - 1 - n and is not 255, neither num_zero_bit_plane nor the
\* decrement at the head of a pass set underflows, and when decode has
\* returned the shift is M_b - 1 - n - ceil((no_passes - 1) / 3).
C37_ShiftInBudget ==
    [][\A i \in DOMAIN cb :
          /\ Budget(cb[i], pc[i]) => InBudget(cb[i], pc[i])
          /\ Budget(cb'[i], pc'[i]) =>
                /\ InBudget(cb'[i], pc'[i])
                /\ pc[i].at = "idle" /\ pc'[i].op = "num_zero_bit_plane" =>
                      /\ pc'[i].at = "idle"
                      /\ cb'[i].bit_plane_shift = pc[i].mb - 1 - pc'[i].zbp
                /\ pc[i].at = "pass_end" => pc'[i].at # "panic"
                /\ pc[i].at = "pass_end" /\ pc[i].pass = "cleanup" /\ pc'[i].at # "ok" =>
                      cb'[i].bit_plane_shift = cb[i].bit_plane_shift - 1]_vars

C37_Witness ==
    /\ pc[1].at = "ok"
    /\ pc[1].mb = 9
    /\ pc[1].zbp = 3
    /\ cb[1].no_passes = 16
    /\ cb[1].bit_plane_shift = 0
    /\ Budget(cb[1], pc[1])

----------------------------------------------------------------------------
(* Properties of the signs *)

\* C38: the sign of a cell is decided once: is_negative of a cell changes
\* only in the sign decode of that cell, a sign decode changes nothing else
\* of the lattice, and a cell has a sign decode only in the step after the
\* one that made it significant, so that no later step of a significance,
\* refinement or cleanup pass changes the sign of a significant cell; a cell
\* that is insignificant contributes 0 to every sign context.
C38_SignOnce ==
    [][\A i \in DOMAIN cb :
          /\ \A k \in DOMAIN cb[i].coefficients :
                /\ cb'[i].coefficients[k].is_negative # cb[i].coefficients[k].is_negative =>
                      /\ pc[i].at = "sign"
                      /\ k = Index(i, pc[i].y, pc[i].x)
                /\ cb[i].coefficients[k].tag = "Insignificant" =>
                      sign_contribution(cb[i].coefficients[k]) = 0
                /\ cb'[i].coefficients[k].tag = "Insignificant" =>
                      sign_contribution(cb'[i].coefficients[k]) = 0
          /\ pc[i].at = "sign" =>
                /\ pc'[i].at # "sign"
                /\ \A k \in DOMAIN cb[i].coefficients :
                      /\ cb'[i].coefficients[k].tag = cb[i].coefficients[k].tag
                      /\ cb'[i].coefficients[k].value = cb[i].coefficients[k].value
                      /\ k # Index(i, pc[i].y, pc[i].x) =>
                            cb'[i].coefficients[k] = cb[i].coefficients[k]
          /\ pc'[i].at = "sign" =>
                /\ cb[i].coefficients[Index(i, pc'[i].y, pc'[i].x)].tag = "Insignificant"
                /\ cb'[i].coefficients[Index(i, pc'[i].y, pc'[i].x)].tag = "Significant"
                /\ ~cb'[i].coefficients[Index(i, pc'[i].y, pc'[i].x)].is_negative]_vars

C38_Witness ==
    /\ cb[1].width = 1
    /\ cb[1].height = 2
    /\ pc[1].pass = "refinement"
    /\ pc[1].refined = {<<0, 0>>}
    /\ cb[1].coefficients[1] = Significant(3, TRUE)
    /\ cb[1].coefficients[2].tag = "Insignificant"
    /\ sign_context(cb[1], 1, 0) = <<10, 1>>

----------------------------------------------------------------------------
(* Properties of the magnitudes *)

\* The bits of the 16-bit value v below bit s
LowBits(v, s) == IF s >= 16 THEN v % 65536 ELSE v % Pow2(s)

\* A pass of decoder i starts with this step
PassStarts(i) == pc'[i].passes = pc[i].passes + 1

\* The step is a magnitude decode of the cell decoder i is at
RefinesHere(i) ==
    /\ <<pc[i].y, pc[i].x>> \in pc'[i].refined
    /\ coder'[i].cx \in 14 .. 16
    /\ pc'[i].at # "panic"

\* C39: when a pass starts, the magnitude of every significant cell has the
\* bits below bit_plane_shift equal to 0; the magnitude of a significant
\* cell changes only in a refinement pass of a bit-plane below the one the
\* cell became significant at; the refinement pass of the bit-plane a cell
\* became significant at leaves the cell alone, and the refinement pass of
\* every other bit-plane decodes one magnitude bit for it.
C39_RefinedBelow ==
    [][\A i \in DOMAIN cb :
          /\ PassStarts(i) =>
                \A k \in DOMAIN cb'[i].coefficients :
                    cb'[i].coefficients[k].tag = "Significant" =>
                        LowBits(cb'[i].coefficients[k].value, cb'[i].bit_plane_shift) = 0
          /\ \A k \in SignificantCells(i) :
                cb'[i].coefficients[k].value # cb[i].coefficients[k].value =>
                    /\ AtCell(i, "refinement")
                    /\ k = Index(i, pc[i].y, pc[i].x)
                    /\ cb[i].bit_plane_shift < pc[i].born[k]
          /\ AtCell(i, "refinement") /\ Here(i).tag = "Significant" =>
                IF pc[i].born[Index(i, pc[i].y, pc[i].x)] = cb[i].bit_plane_shift
                THEN cb'[i] = cb[i] /\ coder'[i] = coder[i] /\ pc'[i].refined = pc[i].refined
                ELSE coder[i].kind # "mock" => RefinesHere(i)]_vars

====
